---- MODULE Spec2Model ----
(***************************************************************************)
(* Model of agentllm's encrypted, type-extensible credential store:        *)
(* TokenEncryption (db/encryption.py), TokenRegistry (db/token_registry.py)*)
(* and TokenStorage (db/token_storage.py).                                 *)
(***************************************************************************)
EXTENDS Integers, Sequences, FiniteSets, TLC

(***************************************************************************)
(* Bounds of the model.                                                    *)
(***************************************************************************)
\* the number of distinct IVs os.urandom can hand to Fernet.encrypt
NumNonces == 2
\* the number of edits of the database made behind the engine's back
MaxCorrupt == 1
\* the largest row id handed out before the model stops inserting
MaxRowId == 2
\* the last reading of the clock
MaxTime == 2

(***************************************************************************)
(* Values.  Every Python value that can sit in a column or in **data is a  *)
(* record of one shape, so that any two of them can be compared:           *)
(*   kind "null"   : None                                                  *)
(*   kind "str"    : an ordinary string s (possibly "")                    *)
(*   kind "fernet" : the string Fernet(k).encrypt(s) produced with IV iv;  *)
(*                   mac "ok" while the token is unmodified                *)
(***************************************************************************)
Null == [kind |-> "null", s |-> "", k |-> "", iv |-> 0, mac |-> ""]

Str(s) == [kind |-> "str", s |-> s, k |-> "", iv |-> 0, mac |-> ""]

\* a datetime: the value a caller can pass for a DateTime column
Time(t) == [kind |-> "time", t |-> t]

\* the keys of the storage instances that share the database
Keys == {"K1", "K2"}

\* the IVs os.urandom can hand to one Fernet.encrypt call
Nonces == 1..NumNonces

\* Python truthiness of a column value: None and "" are falsy
Truthy(v) == v.kind # "null" /\ ~(v.kind = "str" /\ v.s = "")

(***************************************************************************)
(* TokenEncryption                                                         *)
(***************************************************************************)
\* mutant: the value is stored as it came
encryptIdentity(k, iv, v) == [ok |-> TRUE, v |-> v]

\* encrypt under key k with the IV drawn for this call; only a str has
\* .encode, anything else raises inside the try and becomes EncryptionError

encrypt(k, iv, v) ==
    IF v.kind = "str"
    THEN [ok |-> TRUE, v |-> [kind |-> "fernet", s |-> v.s, k |-> k, iv |-> iv, mac |-> "ok"]]
    ELSE [ok |-> FALSE, v |-> Null]

\* decrypt under key k: Fernet verifies the HMAC with k before it decrypts;
\* every failure is a DecryptionError (ok = FALSE)

decrypt(k, v) ==
    IF v.kind = "fernet" /\ v.k = k /\ v.mac = "ok"
    THEN [ok |-> TRUE, v |-> Str(v.s)]
    ELSE [ok |-> FALSE, v |-> Null]

(***************************************************************************)
(* TokenEncryption at the level of code points and bytes.  A Python str is *)
(*   kind "text"  : the sequence cps of its code points, or                *)
(*   kind "token" : the ASCII text of a Fernet token: the base64 spelling  *)
(*                  of version, timestamp, IV, AES-CBC(data) and the HMAC, *)
(*                  sealed under key k with IV iv.  mac is "ok" while the  *)
(*                  bytes it spells are the bytes that were signed;        *)
(*                  spelling is "canonical" as Fernet wrote it, "slack"    *)
(*                  when the bits of its last character that belong to no  *)
(*                  byte are changed.                                      *)
(***************************************************************************)
Text(cps) == [kind |-> "text", cps |-> cps]

\* U+D800..U+DFFF: a str can hold them, UTF-8 cannot
IsSurrogate(c) == c >= 55296 /\ c <= 57343

\* the UTF-8 bytes of one code point
encode_codepoint(c) ==
    IF c < 128 THEN <<c>>
    ELSE IF c < 2048 THEN <<192 + (c \div 64), 128 + (c % 64)>>
    ELSE IF c < 65536
         THEN <<224 + (c \div 4096), 128 + ((c \div 64) % 64), 128 + (c % 64)>>
         ELSE <<240 + (c \div 262144), 128 + ((c \div 4096) % 64),
                128 + ((c \div 64) % 64), 128 + (c % 64)>>

\* str.encode("utf-8"): UnicodeEncodeError (ok = FALSE) on a surrogate
RECURSIVE str_encode(_)
str_encode(cps) ==
    IF cps = <<>> THEN [ok |-> TRUE, b |-> <<>>]
    ELSE IF IsSurrogate(Head(cps)) THEN [ok |-> FALSE, b |-> <<>>]
    ELSE LET rest == str_encode(Tail(cps))
         IN [ok |-> rest.ok,
             b |-> IF rest.ok THEN encode_codepoint(Head(cps)) \o rest.b ELSE <<>>]

\* mutant: every byte is taken for one code point
bytes_decodeLatin1(b) == [ok |-> TRUE, cps |-> b]

\* bytes.decode("utf-8"): UnicodeDecodeError (ok = FALSE) on a byte sequence
\* that is not well-formed UTF-8
RECURSIVE bytes_decode(_)
bytes_decode(b) ==
    IF b = <<>> THEN [ok |-> TRUE, cps |-> <<>>]
    ELSE
      LET h == Head(b)
          n == IF h < 128 THEN 1
               ELSE IF h >= 194 /\ h < 224 THEN 2
               ELSE IF h >= 224 /\ h < 240 THEN 3
               ELSE IF h >= 240 /\ h < 245 THEN 4
               ELSE 0
          wellformed == /\ n > 0 /\ Len(b) >= n
                        /\ \A i \in 2..n : b[i] >= 128 /\ b[i] < 192
          c == IF n = 1 THEN h
               ELSE IF n = 2 THEN (h - 192) * 64 + (b[2] - 128)
               ELSE IF n = 3 THEN (h - 224) * 4096 + (b[2] - 128) * 64 + (b[3] - 128)
               ELSE (h - 240) * 262144 + (b[2] - 128) * 4096
                    + (b[3] - 128) * 64 + (b[4] - 128)
          shortest == (n = 3 => c >= 2048) /\ (n = 4 => c >= 65536)
      IN IF ~wellformed THEN [ok |-> FALSE, cps |-> <<>>]
         ELSE IF ~shortest \/ IsSurrogate(c) \/ c > 1114111
              THEN [ok |-> FALSE, cps |-> <<>>]
              ELSE LET rest == bytes_decode(SubSeq(b, n + 1, Len(b)))
                   IN [ok |-> rest.ok,
                       cps |-> IF rest.ok THEN <<c>> \o rest.cps ELSE <<>>]

\* the number of bytes of a Fernet token: version, timestamp, IV, the data
\* padded (PKCS7) to whole AES blocks, HMAC
TokenBytes(data) == 1 + 8 + 16 + 16 * ((Len(data) \div 16) + 1) + 32

\* the number of characters of its base64 text, padding included
TokenChars(data) == 4 * ((TokenBytes(data) + 2) \div 3)

\* the base64 text ends in padding: its last character before the padding
\* holds bits that belong to no byte
HasSlack(data) == TokenBytes(data) % 3 # 0

\* mutant: the IV is not random
Fernet_encryptFixedIv(k, iv, data) ==
    [kind |-> "token", k |-> k, iv |-> 0, data |-> data, mac |-> "ok",
     spelling |-> "canonical"]

\* Fernet(k).encrypt(data) with the IV that os.urandom returned
Fernet_encrypt(k, iv, data) ==
    [kind |-> "token", k |-> k, iv |-> iv, data |-> data, mac |-> "ok",
     spelling |-> "canonical"]

\* Fernet(k).decrypt(token): base64.urlsafe_b64decode, which ignores the
\* bits of the last character that belong to no byte, then the HMAC check
\* with k over the decoded bytes, then AES; InvalidToken is ok = FALSE
Fernet_decrypt(k, encrypted) ==
    IF encrypted.kind = "token" /\ encrypted.k = k /\ encrypted.mac = "ok"
    THEN [ok |-> TRUE, data |-> encrypted.data]
    ELSE [ok |-> FALSE, data |-> <<>>]

\* the strings that differ from token t in one character: the change
\* alters the bytes the text spells, or makes it no base64 text, or (when
\* the text has padding) alters only the bits that belong to no byte
ChangeOneCharacter(t) ==
    {[t EXCEPT !.mac = "bad"]}
    \cup (IF HasSlack(t.data) THEN {[t EXCEPT !.spelling = "slack"]} ELSE {})

NoError == [kind |-> "none", msg |-> ""]

EncryptionError(msg) == [kind |-> "EncryptionError", msg |-> msg]

EncryptionKeyMissingError ==
    [kind |-> "EncryptionKeyMissingError", msg |-> "Encryption key not configured."]

DecryptionError(msg) == [kind |-> "DecryptionError", msg |-> msg]

\* the message of the "except InvalidToken" clause
InvalidTokenMessage ==
    "Failed to decrypt token. This could mean: (1) wrong encryption key, (2) corrupt data, or (3) tampered data"

\* TokenEncryption.encrypt(plaintext) on the instance whose key is key
TokenEncryption_encrypt(key, iv, plaintext) ==
    LET encoded == str_encode(plaintext.cps)
    IN IF encoded.ok
       THEN [err |-> NoError, out |-> Fernet_encrypt(key, iv, encoded.b)]
       ELSE [err |-> EncryptionError("Failed to encrypt token: 'utf-8' codec can't encode character"),
             out |-> Text(<<>>)]

\* mutant: a token sealed under another key gets a message of its own
TokenEncryption_decryptTelling(key, encrypted) ==
    LET opened == Fernet_decrypt(key, encrypted)
        decoded == bytes_decode(opened.data)
    IN IF encrypted.kind = "token" /\ encrypted.k # key
       THEN [err |-> DecryptionError("Failed to decrypt token: wrong encryption key"),
             out |-> Text(<<>>)]
       ELSE IF ~opened.ok \/ ~decoded.ok
       THEN [err |-> DecryptionError(InvalidTokenMessage), out |-> Text(<<>>)]
       ELSE [err |-> NoError, out |-> Text(decoded.cps)]

\* TokenEncryption.decrypt(encrypted) on the instance whose key is key
TokenEncryption_decrypt(key, encrypted) ==
    LET encoded == IF encrypted.kind = "text" THEN str_encode(encrypted.cps)
                   ELSE [ok |-> TRUE, b |-> <<>>]
        opened == Fernet_decrypt(key, encrypted)
        decoded == bytes_decode(opened.data)
    IN IF ~encoded.ok
       THEN [err |-> DecryptionError("Failed to decrypt token: 'utf-8' codec can't encode character"),
             out |-> Text(<<>>)]
       ELSE IF ~opened.ok
       THEN [err |-> DecryptionError(InvalidTokenMessage), out |-> Text(<<>>)]
       ELSE IF ~decoded.ok
       THEN [err |-> DecryptionError("Failed to decrypt token: 'utf-8' codec can't decode byte"),
             out |-> Text(<<>>)]
       ELSE [err |-> NoError, out |-> Text(decoded.cps)]

\* the values of the encryption_key argument and of the environment variable
\* AGENTLLM_TOKEN_ENCRYPTION_KEY: None, "", a Fernet key, or other text
NoKey == "None"

\* Fernet(key.encode()) accepts the base64 text of 32 bytes
FernetKeyValid(key) == key \in Keys

\* mutant: the environment is looked at first
TokenEncryption_initEnvFirst(encryption_key, env) ==
    LET key == IF env \notin {NoKey, ""} THEN env ELSE encryption_key
    IN IF key \in {NoKey, ""} THEN [err |-> EncryptionKeyMissingError, key |-> NoKey]
       ELSE IF ~FernetKeyValid(key)
            THEN [err |-> EncryptionError("Invalid encryption key format."), key |-> NoKey]
            ELSE [err |-> NoError, key |-> key]

\* TokenEncryption.__init__: "key = encryption_key or os.getenv(...)"
TokenEncryption_init(encryption_key, env) ==
    LET key == IF encryption_key \notin {NoKey, ""} THEN encryption_key ELSE env
    IN IF key \in {NoKey, ""} THEN [err |-> EncryptionKeyMissingError, key |-> NoKey]
       ELSE IF ~FernetKeyValid(key)
            THEN [err |-> EncryptionError("Invalid encryption key format."), key |-> NoKey]
            ELSE [err |-> NoError, key |-> key]

(***************************************************************************)
(* The declarative models (tables) and their columns.  Every table has     *)
(* id, user_id, created_at and updated_at beside the fields listed here.   *)
(***************************************************************************)
TableNames == {"jira_tokens", "github_tokens", "gdrive_tokens", "rhcp_tokens",
               "favorite_colors", "custom_service_tokens"}

ModelFields(m) ==
    CASE m = "jira_tokens" -> {"token", "server_url", "username"}
      [] m = "github_tokens" -> {"token", "server_url", "username"}
      [] m = "gdrive_tokens" -> {"token", "refresh_token", "token_uri", "client_id",
                                 "client_secret", "scopes", "expiry"}
      [] m = "rhcp_tokens" -> {"offline_token"}
      [] m = "favorite_colors" -> {"color"}
      [] m = "custom_service_tokens" -> {"api_key", "api_secret", "endpoint"}

\* config.model.__table__.columns
TableColumns(m) == {"id", "user_id", "created_at", "updated_at"} \cup ModelFields(m)

\* names that the classes made from Base = declarative_base() carry beside
\* their columns: the declarative constructor accepts a keyword when the
\* class has an attribute of that name, column or not
ModelClassAttributes == {"metadata", "registry"}

\* columns declared nullable=False
ModelNotNull(m) ==
    CASE m = "jira_tokens" -> {"token", "server_url"}
      [] m = "github_tokens" -> {"token", "server_url"}
      [] m = "gdrive_tokens" -> {"token"}
      [] m = "rhcp_tokens" -> {"offline_token"}
      [] m = "favorite_colors" -> {"color"}
      [] m = "custom_service_tokens" -> {"api_key", "api_secret", "endpoint"}

\* the value INSERT gives a column that the constructor was not passed
ModelDefault(m, c) ==
    IF m = "github_tokens" /\ c = "server_url" THEN Str("https://api.github.com") ELSE Null

\* created_at / updated_at carry default=datetime.utcnow except in the
\* custom model of the tests, whose timestamp columns have no default
NoTime == 0 - 1

ModelHasTimeDefault(m) == m # "custom_service_tokens"

\* the DateTime columns every model declares beside its fields
TimeColumns == {"created_at", "updated_at"}

\* the value INSERT gives DateTime column c: the datetime the constructor was
\* passed, else (not passed, or passed None) the column default
TimeOnInsert(m, sd, c, now) ==
    IF c \in DOMAIN sd /\ sd[c].kind = "time" THEN sd[c].t
    ELSE IF ModelHasTimeDefault(m) THEN now ELSE NoTime

\* the DateTime type of the SQLite dialect binds datetime and None only
TimeBindable(sd, cols) == \A c \in cols \cap DOMAIN sd : sd[c].kind \in {"time", "null"}

(***************************************************************************)
(* TokenRegistry: a dict, which keeps insertion order; modelled as the     *)
(* sequence of its items.                                                  *)
(***************************************************************************)
\* A codec hook is a callable the config carries, or None.  The model tells
\* hooks apart by what a call of them does: return, raise KeyError, or raise
\* another exception.  The two hooks of the "gdrive" type return.
NoHook == "None"

SerializerHooks == {"serialize_gdrive_credentials", "returns the mapping",
                    "raises KeyError", "raises ValueError"}

DeserializerHooks == {"deserialize_gdrive_credentials", "returns the object",
                      "raises KeyError", "raises ValueError"}

\* the domain object a caller passes as credentials=, by the flat mapping a
\* serializer makes of it
Credentials(flat) == [kind |-> "credentials", flat |-> flat]

\* config.serializer(data["credentials"])
CallSerializer(hook, credentials) ==
    IF hook = "raises KeyError" THEN [exc |-> "KeyError", v |-> <<>>]
    ELSE IF hook = "raises ValueError" \/ credentials.kind # "credentials"
    THEN [exc |-> "Exception", v |-> <<>>]
    ELSE [exc |-> "none", v |-> credentials.flat]

\* config.deserializer(token_data)
CallDeserializer(hook, token_data) ==
    IF hook = "raises KeyError" THEN [exc |-> "KeyError", v |-> token_data]
    ELSE IF hook = "raises ValueError" THEN [exc |-> "Exception", v |-> token_data]
    ELSE [exc |-> "none", v |-> [kind |-> "object", of |-> token_data]]

TokenTypeConfig(model, encrypted_fields, serializer, deserializer) ==
    [model |-> model, encrypted_fields |-> encrypted_fields,
     serializer |-> serializer, deserializer |-> deserializer]

list_types(reg) == [i \in 1..Len(reg) |-> reg[i].name]

is_registered(reg, token_type) == \E i \in 1..Len(reg) : reg[i].name = token_type

\* mutant: setdefault, the first config of a name stays
registerKeepFirst(reg, token_type, config) ==
    IF is_registered(reg, token_type) THEN reg
    ELSE Append(reg, [name |-> token_type, config |-> config])

\* mutant: the name is removed and added again at the end
registerMoveToEnd(reg, token_type, config) ==
    Append(SelectSeq(reg, LAMBDA e : e.name # token_type),
           [name |-> token_type, config |-> config])

\* self._registry[token_type] = config: overwrite in place, or append
register(reg, token_type, config) ==
    IF is_registered(reg, token_type)
    THEN [i \in 1..Len(reg) |->
            IF reg[i].name = token_type THEN [name |-> token_type, config |-> config]
            ELSE reg[i]]
    ELSE Append(reg, [name |-> token_type, config |-> config])

\* the KeyError of TokenRegistry.get; its message carries the joined keys
KeyError(token_type, available) ==
    [exc |-> "KeyError", token_type |-> token_type, available |-> available]

NoExc == [exc |-> "none", token_type |-> "", available |-> <<>>]

\* a KeyError raised inside a hook: not the registry's message
HookKeyError == [exc |-> "KeyError", token_type |-> "", available |-> <<>>]

NoConfig == TokenTypeConfig("", {}, NoHook, NoHook)

\* mutant: the message lists the types registered at construction
TokenRegistry_getStale(reg, token_type) ==
    IF ~is_registered(reg, token_type)
    THEN [ok |-> FALSE, config |-> NoConfig,
          error |-> KeyError(token_type, <<"jira", "github", "gdrive", "rhcp">>)]
    ELSE [ok |-> TRUE,
          config |-> reg[CHOOSE i \in 1..Len(reg) : reg[i].name = token_type].config,
          error |-> NoExc]

TokenRegistry_get(reg, token_type) ==
    IF ~is_registered(reg, token_type)
    THEN [ok |-> FALSE, config |-> NoConfig,
          error |-> KeyError(token_type, list_types(reg))]
    ELSE [ok |-> TRUE,
          config |-> reg[CHOOSE i \in 1..Len(reg) : reg[i].name = token_type].config,
          error |-> NoExc]

_initialize_registry ==
    register(register(register(register(<<>>,
        "jira", TokenTypeConfig("jira_tokens", {"token"}, NoHook, NoHook)),
        "github", TokenTypeConfig("github_tokens", {"token"}, NoHook, NoHook)),
        "gdrive", TokenTypeConfig("gdrive_tokens",
                                  {"token", "refresh_token", "client_secret"},
                                  "serialize_gdrive_credentials",
                                  "deserialize_gdrive_credentials")),
        "rhcp", TokenTypeConfig("rhcp_tokens", {"offline_token"}, NoHook, NoHook))

(***************************************************************************)
(* The store.  A table is a set of rows; nothing in this representation    *)
(* makes user_id unique, the INSERT below has to enforce it.               *)
(***************************************************************************)
NewRow(id, user_id, f, created_at, updated_at) ==
    [id |-> id, user_id |-> user_id, f |-> f,
     created_at |-> created_at, updated_at |-> updated_at]

MaxId(rows) == IF rows = {} THEN 0 ELSE CHOOSE n \in {r.id : r \in rows} :
                                           \A r \in rows : r.id <= n

\* sess.query(model).filter_by(user_id=user_id).first(): {} for None, else
\* the singleton of the first matching row
query_first(rows, user_id) ==
    LET hits == {r \in rows : r.user_id = user_id}
    IN IF hits = {} THEN {}
       ELSE {CHOOSE r \in hits : \A q \in hits : r.id <= q.id}

\* mutant: only the columns the built-in types encrypt are encrypted
EncryptFieldsBuiltin(config, key, ivs, data) ==
    LET todo == {c \in config.encrypted_fields \cap
                        {"token", "refresh_token", "client_secret", "offline_token"} :
                    c \in DOMAIN data /\ Truthy(data[c])}
    IN [ok |-> \A c \in todo : encrypt(key, ivs[c], data[c]).ok,
        sd |-> [c \in DOMAIN data |->
                  IF c \in todo THEN encrypt(key, ivs[c], data[c]).v ELSE data[c]]]

\* mutant: every encrypted field that is a string is encrypted, the empty
\* one too
EncryptFieldsEmpty(config, key, ivs, data) ==
    LET todo == {c \in config.encrypted_fields : c \in DOMAIN data /\ data[c].kind = "str"}
    IN [ok |-> \A c \in todo : encrypt(key, ivs[c], data[c]).ok,
        sd |-> [c \in DOMAIN data |->
                  IF c \in todo THEN encrypt(key, ivs[c], data[c]).v ELSE data[c]]]

\* "for field_name in config.encrypted_fields: if field_name in storage_data
\* and storage_data[field_name]: ... = self._encrypt_token(...)"
EncryptFields(config, key, ivs, data) ==
    LET todo == {c \in config.encrypted_fields : c \in DOMAIN data /\ Truthy(data[c])}
    IN [ok |-> \A c \in todo : encrypt(key, ivs[c], data[c]).ok,
        sd |-> [c \in DOMAIN data |->
                  IF c \in todo THEN encrypt(key, ivs[c], data[c]).v ELSE data[c]]]

\* mutant: the row flushed by a failing INSERT is not rolled back
InsertRowNoRollback(rows, m, user_id, sd, now) ==
    LET f == [c \in ModelFields(m) |-> IF c \in DOMAIN sd THEN sd[c] ELSE ModelDefault(m, c)]
        row == NewRow(MaxId(rows) + 1, user_id, f, now, now)
    IN IF /\ DOMAIN sd \subseteq ModelFields(m)
          /\ \A c \in ModelNotNull(m) : f[c].kind # "null"
          /\ \A r \in rows : r.user_id # user_id
       THEN [ok |-> TRUE, rows |-> rows \cup {row}]
       ELSE [ok |-> FALSE, rows |-> rows \cup {row}]

\* mutant: user_id is not declared unique
InsertRowNoUnique(rows, m, user_id, sd, now) ==
    LET f == [c \in ModelFields(m) |-> IF c \in DOMAIN sd THEN sd[c] ELSE ModelDefault(m, c)]
        row == NewRow(MaxId(rows) + 1, user_id, f, now, now)
    IN IF /\ DOMAIN sd \subseteq ModelFields(m)
          /\ \A c \in ModelNotNull(m) : f[c].kind # "null"
       THEN [ok |-> TRUE, rows |-> rows \cup {row}]
       ELSE [ok |-> FALSE, rows |-> rows]

\* mutant: an INSERT for a user_id that has a row replaces that row
InsertRowReplace(rows, m, user_id, sd, now) ==
    LET f == [c \in ModelFields(m) |-> IF c \in DOMAIN sd THEN sd[c] ELSE ModelDefault(m, c)]
        row == NewRow(MaxId(rows) + 1, user_id, f, TimeOnInsert(m, sd, "created_at", now),
                      TimeOnInsert(m, sd, "updated_at", now))
    IN IF /\ DOMAIN sd \subseteq ModelFields(m) \cup TimeColumns
          /\ TimeBindable(sd, TimeColumns)
          /\ \A c \in ModelNotNull(m) : f[c].kind # "null"
       THEN [ok |-> TRUE, rows |-> {r \in rows : r.user_id # user_id} \cup {row}]
       ELSE [ok |-> FALSE, rows |-> rows]

\* INSERT of config.model(user_id=user_id, **storage_data) and commit.
\* The declarative constructor raises TypeError for a name that is no
\* attribute of the model; the table raises IntegrityError for a NULL in a
\* nullable=False column and for a second row with the same user_id.  A
\* keyword that names another attribute of the class is set on the instance
\* and takes no part in the INSERT.  (The callers modelled here never pass
\* id.)
InsertRow(rows, m, user_id, sd, now) ==
    LET f == [c \in ModelFields(m) |-> IF c \in DOMAIN sd THEN sd[c] ELSE ModelDefault(m, c)]
        row == NewRow(MaxId(rows) + 1, user_id, f, TimeOnInsert(m, sd, "created_at", now),
                      TimeOnInsert(m, sd, "updated_at", now))
    IN IF /\ DOMAIN sd \subseteq ModelFields(m) \cup TimeColumns \cup ModelClassAttributes
          /\ TimeBindable(sd, TimeColumns)
          /\ \A c \in ModelNotNull(m) : f[c].kind # "null"
          /\ \A r \in rows : r.user_id # user_id
       THEN [ok |-> TRUE, rows |-> rows \cup {row}]
       ELSE [ok |-> FALSE, rows |-> rows]

\* mutant: an UPDATE with a name that is no column fails
UpdateRowStrict(rows, m, existing, sd, now) ==
    LET changed == {c \in DOMAIN sd \cap ModelFields(m) : sd[c] # existing.f[c]}
        target == {r \in rows : r.id = existing.id}
        new(r) == [r EXCEPT !.f = [c \in ModelFields(m) |->
                                      IF c \in changed THEN sd[c] ELSE r.f[c]],
                            !.updated_at = now]
    IN IF /\ target # {}
          /\ DOMAIN sd \subseteq ModelFields(m)
          /\ \A c \in changed \cap ModelNotNull(m) : sd[c].kind # "null"
       THEN [ok |-> TRUE, rows |-> (rows \ target) \cup {new(r) : r \in target}]
       ELSE [ok |-> FALSE, rows |-> rows]

\* "for key, value in storage_data.items(): if hasattr(existing, key):
\* setattr(existing, key, value)", "existing.updated_at = utcnow()" and commit;
\* created_at is an attribute like any other, and an updated_at that was
\* passed is overwritten by the assignment that follows the loop.
\* The unit of work emits UPDATE ... WHERE id = existing.id for the attributes
\* that differ from the loaded row; no row matched is StaleDataError, a NULL
\* in a nullable=False column IntegrityError.
UpdateRow(rows, m, existing, sd, now) ==
    LET changed == {c \in DOMAIN sd \cap ModelFields(m) : sd[c] # existing.f[c]}
        target == {r \in rows : r.id = existing.id}
        created == IF "created_at" \notin DOMAIN sd THEN existing.created_at
                   ELSE IF sd["created_at"].kind = "time" THEN sd["created_at"].t
                   ELSE NoTime
        new(r) == [r EXCEPT !.f = [c \in ModelFields(m) |->
                                      IF c \in changed THEN sd[c] ELSE r.f[c]],
                            !.created_at = IF created # existing.created_at
                                           THEN created ELSE r.created_at,
                            !.updated_at = now]
    IN IF /\ target # {}
          /\ TimeBindable(sd, {"created_at"})
          /\ \A c \in changed \cap ModelNotNull(m) : sd[c].kind # "null"
       THEN [ok |-> TRUE, rows |-> (rows \ target) \cup {new(r) : r \in target}]
       ELSE [ok |-> FALSE, rows |-> rows]

\* mutant: the DELETE is never committed
DeleteRowNoCommit(rows, existing) == [ok |-> TRUE, rows |-> rows]

\* sess.delete(token_record); sess.commit(): DELETE ... WHERE id = record.id.
\* A DELETE that matches no row only warns.
DeleteRow(rows, existing) ==
    [ok |-> TRUE, rows |-> {r \in rows : r.id # existing.id}]

(***************************************************************************)
(* TokenStorage: the three generic operations, as functions of the         *)
(* registry, the tables and the arguments.  Each returns the exception     *)
(* that escapes (NoExc if none), the value returned, and the tables after. *)
(***************************************************************************)
NoneResult == [kind |-> "none"]

\* mutant: every upsert_token adds a row
upsert_writeInsertOnly(rows, config, existing, user_id, sd, now) ==
    InsertRowNoUnique(rows, config.model, user_id, sd, now)

\* the write half of upsert_token, given what the query returned
upsert_write(rows, config, existing, user_id, sd, now) ==
    IF existing # {}
    THEN UpdateRow(rows, config.model, CHOOSE e \in existing : TRUE, sd, now)
    ELSE InsertRow(rows, config.model, user_id, sd, now)

\* "storage_data = data.copy(); if config.serializer and "credentials" in
\* data: storage_data = config.serializer(data["credentials"])"
storage_data(config, data) ==
    IF config.serializer # NoHook /\ "credentials" \in DOMAIN data
    THEN CallSerializer(config.serializer, data["credentials"])
    ELSE [exc |-> "none", v |-> data]

\* the except clauses: a KeyError is raised again whoever raised it, any
\* other exception becomes False
upsert_token(reg, tabs, key, ivs, token_type, user_id, data, now) ==
    LET g == TokenRegistry_get(reg, token_type)
        config == g.config
        m == config.model
    IN IF ~g.ok THEN [exc |-> g.error, ret |-> FALSE, tables |-> tabs]
       ELSE IF m \notin DOMAIN tabs THEN [exc |-> NoExc, ret |-> FALSE, tables |-> tabs]
       ELSE LET existing == query_first(tabs[m], user_id)
                ser == storage_data(config, data)
                enc == EncryptFields(config, key, ivs, ser.v)
                w == upsert_write(tabs[m], config, existing, user_id, enc.sd, now)
            IN IF ser.exc = "KeyError"
               THEN [exc |-> HookKeyError, ret |-> FALSE, tables |-> tabs]
               ELSE IF ser.exc # "none" \/ ~enc.ok
               THEN [exc |-> NoExc, ret |-> FALSE, tables |-> tabs]
               ELSE [exc |-> NoExc, ret |-> w.ok, tables |-> [tabs EXCEPT ![m] = w.rows]]

\* the keys of the dict that get_token builds: one for each column of the
\* table
dict_keys(td) == {"id", "user_id", "created_at", "updated_at"} \cup DOMAIN td.f

\* mutant: a column that holds NULL gets no key
token_dataSparse(config, key, row) ==
    LET cols == {c \in ModelFields(config.model) : row.f[c].kind # "null"}
        todo == {c \in config.encrypted_fields \cap cols : Truthy(row.f[c])}
    IN IF \E c \in todo : ~decrypt(key, row.f[c]).ok
       THEN NoneResult
       ELSE [kind |-> "dict", id |-> row.id, user_id |-> row.user_id,
             f |-> [c \in cols |-> IF c \in todo THEN decrypt(key, row.f[c]).v
                                                 ELSE row.f[c]],
             created_at |-> row.created_at, updated_at |-> row.updated_at]

\* mutant: a value that is no ciphertext of the key is returned as stored
token_dataLenient(config, key, row) ==
    LET cols == ModelFields(config.model)
        todo == {c \in config.encrypted_fields \cap cols :
                    Truthy(row.f[c]) /\ decrypt(key, row.f[c]).ok}
    IN [kind |-> "dict", id |-> row.id, user_id |-> row.user_id,
        f |-> [c \in cols |-> IF c \in todo THEN decrypt(key, row.f[c]).v
                                            ELSE row.f[c]],
        created_at |-> row.created_at, updated_at |-> row.updated_at]

\* mutant: the columns are returned as stored
token_dataRaw(config, key, row) ==
    [kind |-> "dict", id |-> row.id, user_id |-> row.user_id, f |-> row.f,
     created_at |-> row.created_at, updated_at |-> row.updated_at]

\* mutant: a field that fails to decrypt is left as stored
token_dataPartial(config, key, row) ==
    LET cols == ModelFields(config.model)
        todo == {c \in config.encrypted_fields \cap cols :
                    Truthy(row.f[c]) /\ decrypt(key, row.f[c]).ok}
    IN [kind |-> "dict", id |-> row.id, user_id |-> row.user_id,
        f |-> [c \in cols |-> IF c \in todo THEN decrypt(key, row.f[c]).v ELSE row.f[c]],
        created_at |-> row.created_at, updated_at |-> row.updated_at]

\* mutant: a decryption failure is told apart from a missing row
token_dataMarked(config, key, row) ==
    LET cols == ModelFields(config.model)
        todo == {c \in config.encrypted_fields \cap cols : Truthy(row.f[c])}
    IN IF \E c \in todo : ~decrypt(key, row.f[c]).ok
       THEN [kind |-> "none", undecryptable |-> TRUE]
       ELSE [kind |-> "dict", id |-> row.id, user_id |-> row.user_id,
             f |-> [c \in cols |-> IF c \in todo THEN decrypt(key, row.f[c]).v
                                                 ELSE row.f[c]],
             created_at |-> row.created_at, updated_at |-> row.updated_at]

\* the dict built from the row's columns, with the encrypted fields that
\* hold a truthy value decrypted; None as soon as one decrypt fails
token_data(config, key, row) ==
    LET cols == ModelFields(config.model)
        todo == {c \in config.encrypted_fields \cap cols : Truthy(row.f[c])}
    IN IF \E c \in todo : ~decrypt(key, row.f[c]).ok
       THEN NoneResult
       ELSE [kind |-> "dict", id |-> row.id, user_id |-> row.user_id,
             f |-> [c \in cols |-> IF c \in todo THEN decrypt(key, row.f[c]).v
                                                 ELSE row.f[c]],
             created_at |-> row.created_at, updated_at |-> row.updated_at]

\* mutant: the deserializer of the type is never applied
returnedFlat(config, td, tabs) == [exc |-> NoExc, got |-> td, tables |-> tabs]

\* "if config.deserializer: return config.deserializer(token_data)", else
\* the dict; a KeyError of the hook is raised again, any other exception of
\* it becomes None
returned(config, td, tabs) ==
    IF td = NoneResult \/ config.deserializer = NoHook
    THEN [exc |-> NoExc, got |-> td, tables |-> tabs]
    ELSE LET d == CallDeserializer(config.deserializer, td)
         IN IF d.exc = "KeyError"
            THEN [exc |-> HookKeyError, got |-> NoneResult, tables |-> tabs]
            ELSE IF d.exc # "none"
            THEN [exc |-> NoExc, got |-> NoneResult, tables |-> tabs]
            ELSE [exc |-> NoExc, got |-> d.v, tables |-> tabs]

\* mutant: a row that cannot be decrypted is removed by the read
get_tokenPurge(reg, tabs, key, token_type, user_id) ==
    LET g == TokenRegistry_get(reg, token_type)
        config == g.config
        m == config.model
    IN IF ~g.ok THEN [exc |-> g.error, got |-> NoneResult, tables |-> tabs]
       ELSE IF m \notin DOMAIN tabs THEN [exc |-> NoExc, got |-> NoneResult, tables |-> tabs]
       ELSE LET token_record == query_first(tabs[m], user_id)
                got == token_data(config, key, CHOOSE r \in token_record : TRUE)
            IN IF token_record = {}
               THEN [exc |-> NoExc, got |-> NoneResult, tables |-> tabs]
               ELSE [exc |-> NoExc, got |-> got,
                     tables |-> IF got = NoneResult
                                THEN [tabs EXCEPT ![m] = @ \ token_record] ELSE tabs]

get_token(reg, tabs, key, token_type, user_id) ==
    LET g == TokenRegistry_get(reg, token_type)
        config == g.config
        m == config.model
    IN IF ~g.ok THEN [exc |-> g.error, got |-> NoneResult, tables |-> tabs]
       ELSE IF m \notin DOMAIN tabs THEN [exc |-> NoExc, got |-> NoneResult, tables |-> tabs]
       ELSE LET token_record == query_first(tabs[m], user_id)
            IN IF token_record = {}
               THEN [exc |-> NoExc, got |-> NoneResult, tables |-> tabs]
               ELSE returned(config, token_data(config, key,
                                                CHOOSE r \in token_record : TRUE), tabs)

delete_token(reg, tabs, token_type, user_id) ==
    LET g == TokenRegistry_get(reg, token_type)
        m == g.config.model
    IN IF ~g.ok THEN [exc |-> g.error, ret |-> FALSE, tables |-> tabs]
       ELSE IF m \notin DOMAIN tabs THEN [exc |-> NoExc, ret |-> FALSE, tables |-> tabs]
       ELSE LET token_record == query_first(tabs[m], user_id)
            IN IF token_record = {}
               THEN [exc |-> NoExc, ret |-> FALSE, tables |-> tabs]
               ELSE [exc |-> NoExc, ret |-> TRUE,
                     tables |-> [tabs EXCEPT ![m] =
                        DeleteRow(tabs[m], CHOOSE r \in token_record : TRUE).rows]]

(***************************************************************************)
(* The favorite color operations, which go to the FavoriteColor model      *)
(* without the registry and without the cipher.  A failure inside the      *)
(* session (no such table, NOT NULL) is caught: False, or None.            *)
(***************************************************************************)
\* mutant: a color that is there is not replaced
upsert_favorite_colorKeepFirst(tabs, user_id, color, now) ==
    LET m == "favorite_colors"
    IN IF m \notin DOMAIN tabs \/ color.kind = "null"
       THEN [ret |-> FALSE, tables |-> tabs]
       ELSE IF query_first(tabs[m], user_id) # {}
       THEN [ret |-> TRUE, tables |-> tabs]
       ELSE [ret |-> TRUE,
             tables |-> [tabs EXCEPT ![m] = @ \cup
                           {NewRow(MaxId(tabs[m]) + 1, user_id, [c \in {"color"} |-> color],
                                   now, now)}]]

upsert_favorite_color(tabs, user_id, color, now) ==
    LET m == "favorite_colors"
    IN IF m \notin DOMAIN tabs \/ color.kind = "null"
       THEN [ret |-> FALSE, tables |-> tabs]
       ELSE LET existing == query_first(tabs[m], user_id)
            IN IF existing # {}
               THEN [ret |-> TRUE,
                     tables |-> [tabs EXCEPT ![m] =
                        {IF r \in existing
                         THEN [r EXCEPT !.f = [c \in {"color"} |-> color],
                                        !.updated_at = now]
                         ELSE r : r \in tabs[m]}]]
               ELSE [ret |-> TRUE,
                     tables |-> [tabs EXCEPT ![m] = @ \cup
                        {NewRow(MaxId(tabs[m]) + 1, user_id, [c \in {"color"} |-> color],
                                now, now)}]]

get_favorite_color(tabs, user_id) ==
    LET m == "favorite_colors"
    IN IF m \notin DOMAIN tabs THEN NoneResult
       ELSE LET color_record == query_first(tabs[m], user_id)
            IN IF color_record = {} THEN NoneResult
               ELSE (CHOOSE r \in color_record : TRUE).f["color"]

delete_favorite_color(tabs, user_id) ==
    LET m == "favorite_colors"
    IN IF m \notin DOMAIN tabs THEN [ret |-> FALSE, tables |-> tabs]
       ELSE LET color_record == query_first(tabs[m], user_id)
            IN IF color_record = {}
               THEN [ret |-> FALSE, tables |-> tabs]
               ELSE [ret |-> TRUE, tables |-> [tabs EXCEPT ![m] = @ \ color_record]]

(***************************************************************************)
(* The arguments the operations are called with.                           *)
(***************************************************************************)
\* the TokenStorage instances opened on the one database, and their keys
Storages == {"s1", "s2"}

StorageKey(st) == IF st = "s1" THEN "K1" ELSE "K2"

Users == {"u1", "u2"}

\* the type names the callers pass; "custom-service" is registered only by
\* the register action
OpTypes == {"jira", "custom-service"}

AllTypes == OpTypes \cup {"nonexistent"}

\* the kinds of record the history variable follows: the credential types
\* that are written, and the favorite color
HistoryTypes == AllTypes \cup {"gdrive", "github", "favorite_color"}

\* the keyword mappings **data of the upsert_token calls; "bogus" is no
\* column of any table
JiraFull == ("token" :> Str("abc123")) @@ ("server_url" :> Str("https://x.example"))

JiraData ==
    { JiraFull,
      ("token" :> Str("tok2")) @@ ("server_url" :> Str("https://x.example"))
          @@ ("username" :> Str("bob")),
      ("token" :> Str("")) @@ ("server_url" :> Str("https://x.example")),
      ("token" :> Null) @@ ("server_url" :> Str("https://x.example")),
      ("token" :> Str("tok2")),
      JiraFull @@ ("bogus" :> Str("z")) }

CustomData ==
    { ("api_key" :> Str("abc123")) @@ ("api_secret" :> Str("tok2"))
          @@ ("endpoint" :> Str("https://x.example")) }

UpsertData(token_type) == IF token_type = "jira" THEN JiraData ELSE CustomData

\* one IV for each field the call encrypts
UpsertIvs(token_type, data) ==
    IF token_type # "custom-service"
    THEN [{"token"} -> IF "token" \in DOMAIN data /\ Truthy(data["token"])
                       THEN Nonces ELSE {1}]
    ELSE [{"api_key", "api_secret"} -> {1}]

(***************************************************************************)
(* State.                                                                  *)
(***************************************************************************)
VARIABLES
    registry,   \* registry[st]: the TokenRegistry of storage instance st
    tables,     \* the database: table name -> set of rows, for the tables that exist
    now,        \* the clock read by datetime.utcnow()
    last,       \* history: the operation completed last and what it returned
    supplied,   \* history: per (type, user) the **data and the key of the last
                \* upsert_token that returned True, until a delete_token returns
                \* True for it or its row is edited behind the engine's back
    ncorrupt,   \* history: the number of edits made behind the engine's back
    calls,      \* calls[p]: the upsert_token or delete_token that thread p is
                \* inside of, between its query and its commit
    ciphers,    \* ciphers[x]: the key of the TokenEncryption x (of a storage
                \* instance, or one built on its own), NoKey while none is built
    issued      \* history: the encrypt calls made on the TokenEncryption
                \* instances built on their own, in order

vars == <<registry, tables, now, last, supplied, ncorrupt, calls, ciphers, issued>>

\* the TokenEncryption instances built on their own
Encryptions == {"e1", "e2", "e3"}

\* the threads that call one storage instance concurrently
Procs == {"p1", "p2"}

Idle == [pc |-> "idle"]

NoSupplied == [has |-> FALSE]

Completed(op, st, token_type, user_id, out) ==
    [op |-> op, inst |-> st, type |-> token_type, user |-> user_id,
     exc |-> out.exc, ret |-> out.ret, got |-> out.got]

\* Base.metadata.create_all: the tables of the models declared in token_storage.py
_create_tables ==
    [m \in {"jira_tokens", "github_tokens", "gdrive_tokens", "rhcp_tokens",
             "favorite_colors"} |-> {}]

Init ==
    /\ registry = [st \in Storages |-> _initialize_registry]
    /\ tables = _create_tables
    /\ now = 0
    /\ last = Completed("init", "s1", "jira", "u1",
                        [exc |-> NoExc, ret |-> FALSE, got |-> NoneResult])
    /\ supplied = [k \in HistoryTypes \X Users |-> NoSupplied]
    /\ ncorrupt = 0
    /\ calls = [p \in Procs |-> Idle]
    /\ ciphers = [x \in Storages \cup Encryptions |->
                     IF x \in Storages THEN StorageKey(x) ELSE NoKey]
    /\ issued = <<>>

(***************************************************************************)
(* The operations, one action each.                                        *)
(***************************************************************************)
UpsertToken(st, token_type, user_id, data, ivs) ==
    \E out \in {upsert_token(registry[st], tables, StorageKey(st), ivs,
                              token_type, user_id, data, now)} :
       /\ \A m \in DOMAIN out.tables : MaxId(out.tables[m]) <= MaxRowId
       /\ tables' = out.tables
       /\ last' = Completed("upsert", st, token_type, user_id,
                            [exc |-> out.exc, ret |-> out.ret, got |-> NoneResult])
       /\ supplied' = IF out.ret
                      THEN [supplied EXCEPT ![<<token_type, user_id>>] =
                              [has |-> TRUE, key |-> StorageKey(st), data |-> data]]
                      ELSE supplied
       /\ UNCHANGED <<registry, now, ncorrupt, calls, ciphers, issued>>

GetToken(st, token_type, user_id) ==
    \E out \in {get_token(registry[st], tables, StorageKey(st), token_type, user_id)} :
       /\ tables' = out.tables
       /\ last' = Completed("get", st, token_type, user_id,
                            [exc |-> out.exc, ret |-> FALSE, got |-> out.got])
       /\ UNCHANGED <<registry, now, supplied, ncorrupt, calls, ciphers, issued>>

DeleteToken(st, token_type, user_id) ==
    \E out \in {delete_token(registry[st], tables, token_type, user_id)} :
       /\ tables' = out.tables
       /\ last' = Completed("delete", st, token_type, user_id,
                            [exc |-> out.exc, ret |-> out.ret, got |-> NoneResult])
       /\ supplied' = IF out.ret
                      THEN [supplied EXCEPT ![<<token_type, user_id>>] = NoSupplied]
                      ELSE supplied
       /\ UNCHANGED <<registry, now, ncorrupt, calls, ciphers, issued>>

\* the favorite color calls; the history holds the color of the last
\* upsert_favorite_color call for the user that no delete_favorite_color
\* call followed, whatever the calls returned
UpsertFavoriteColor(st, user_id, color) ==
    \E out \in {upsert_favorite_color(tables, user_id, color, now)} :
       /\ \A m \in DOMAIN out.tables : MaxId(out.tables[m]) <= MaxRowId
       /\ tables' = out.tables
       /\ last' = Completed("upsert_favorite_color", st, "favorite_color", user_id,
                            [exc |-> NoExc, ret |-> out.ret, got |-> NoneResult])
       /\ supplied' = [supplied EXCEPT ![<<"favorite_color", user_id>>] =
                         [has |-> TRUE, key |-> StorageKey(st),
                          data |-> [c \in {"color"} |-> color]]]
       /\ UNCHANGED <<registry, now, ncorrupt, calls, ciphers, issued>>

GetFavoriteColor(st, user_id) ==
    /\ last' = Completed("get_favorite_color", st, "favorite_color", user_id,
                         [exc |-> NoExc, ret |-> FALSE,
                          got |-> get_favorite_color(tables, user_id)])
    /\ UNCHANGED <<registry, tables, now, supplied, ncorrupt, calls, ciphers, issued>>

DeleteFavoriteColor(st, user_id) ==
    \E out \in {delete_favorite_color(tables, user_id)} :
       /\ tables' = out.tables
       /\ last' = Completed("delete_favorite_color", st, "favorite_color", user_id,
                            [exc |-> NoExc, ret |-> out.ret, got |-> NoneResult])
       /\ supplied' = [supplied EXCEPT ![<<"favorite_color", user_id>>] = NoSupplied]
       /\ UNCHANGED <<registry, now, ncorrupt, calls, ciphers, issued>>

\* storage._registry.register("custom-service", TokenTypeConfig(...)), as the
\* tests do on a running instance
CustomServiceConfig ==
    TokenTypeConfig("custom_service_tokens", {"api_key", "api_secret"}, NoHook, NoHook)

Register(st, token_type, config) ==
    /\ registry' = [registry EXCEPT ![st] = register(registry[st], token_type, config)]
    /\ last' = [config |-> config] @@
               Completed("register", st, token_type, "u1",
                         [exc |-> NoExc, ret |-> FALSE, got |-> NoneResult])
    /\ UNCHANGED <<tables, now, supplied, ncorrupt, calls, ciphers, issued>>

\* a write to the database that bypasses the engine, as the tests do to
\* corrupt a stored token: the raw value of one column of one row is
\* replaced by text that is no Fernet token, or a Fernet token is altered
CorruptValues(v) ==
    {Str("gAAAAAcorrupt_data_not_valid")} \cup
    (IF v.kind = "fernet" /\ v.mac = "ok" THEN {[v EXCEPT !.mac = "bad"]} ELSE {})

Corrupt(m, row, c, garbage) ==
    /\ ncorrupt < MaxCorrupt
    /\ tables' = [tables EXCEPT ![m] = (@ \ {row}) \cup {[row EXCEPT !.f[c] = garbage]}]
    /\ last' = Completed("corrupt", "s1", "jira", row.user_id,
                         [exc |-> NoExc, ret |-> FALSE, got |-> NoneResult])
    /\ supplied' = [k \in HistoryTypes \X Users |->
                      IF k[2] = row.user_id THEN NoSupplied ELSE supplied[k]]
    /\ ncorrupt' = ncorrupt + 1
    /\ UNCHANGED <<registry, now, calls, ciphers, issued>>

\* CustomServiceToken.__table__.create(storage.db_engine, checkfirst=True),
\* as the tests do after registering the type
CreateTable(m) ==
    /\ m \notin DOMAIN tables
    /\ tables' = [x \in DOMAIN tables \cup {m} |-> IF x = m THEN {} ELSE tables[x]]
    /\ last' = Completed("create_table", "s1", "custom-service", "u1",
                         [exc |-> NoExc, ret |-> FALSE, got |-> NoneResult])
    /\ UNCHANGED <<registry, now, supplied, ncorrupt, calls, ciphers, issued>>

(***************************************************************************)
(* Spec: one storage instance, called sequentially with every kind of      *)
(* **data, for registered types and for a name that is not registered.     *)
(***************************************************************************)
Next ==
    \/ \E t \in OpTypes, u \in Users : \E data \in UpsertData(t) :
          \E ivs \in UpsertIvs(t, data) : UpsertToken("s1", t, u, data, ivs)
    \/ \E t \in OpTypes, u \in Users : GetToken("s1", t, u)
    \/ \E t \in OpTypes, u \in Users : DeleteToken("s1", t, u)

Spec == Init /\ [][Next]_vars

(***************************************************************************)
(* SpecReg: a type is registered on a running instance.                    *)
(***************************************************************************)
RegTypes == {"jira", "custom-service", "nonexistent"}

RegData(token_type) ==
    IF token_type = "custom-service" THEN CHOOSE d \in CustomData : TRUE ELSE JiraFull

NextReg ==
    \/ \E st \in Storages, t \in RegTypes, u \in Users :
          \E ivs \in UpsertIvs(t, RegData(t)) : UpsertToken(st, t, u, RegData(t), ivs)
    \/ \E st \in Storages, t \in RegTypes, u \in Users : GetToken(st, t, u)
    \/ \E st \in Storages, t \in RegTypes, u \in Users : DeleteToken(st, t, u)
    \/ \E st \in Storages : Register(st, "custom-service", CustomServiceConfig)

SpecReg == Init /\ [][NextReg]_vars

(***************************************************************************)
(* SpecKeys: two storage instances with different keys on one database,    *)
(* and rows edited behind the engine's back.                               *)
(***************************************************************************)
KeysUsers == {"u1"}

\* the stored Fernet tokens an edit can hit
CorruptTargets(m, row) == {c \in ModelFields(m) : row.f[c].kind = "fernet"}

NextKeys ==
    \/ \E st \in Storages, t \in OpTypes, u \in KeysUsers :
          \E ivs \in UpsertIvs(t, RegData(t)) : UpsertToken(st, t, u, RegData(t), ivs)
    \/ \E st \in Storages, t \in OpTypes, u \in KeysUsers : GetToken(st, t, u)
    \/ \E st \in Storages, t \in OpTypes, u \in KeysUsers : DeleteToken(st, t, u)
    \/ \E st \in Storages : Register(st, "custom-service", CustomServiceConfig)
    \/ CreateTable("custom_service_tokens")
    \/ \E m \in DOMAIN tables : \E row \in tables[m] :
          \E c \in CorruptTargets(m, row) : \E g \in CorruptValues(row.f[c]) :
            Corrupt(m, row, c, g)

SpecKeys == Init /\ [][NextKeys]_vars

(***************************************************************************)
(* SpecTime: the clock advances between the calls, and callers also pass   *)
(* the DateTime columns by keyword, which **data lets them do.             *)
(***************************************************************************)
Tick ==
    /\ now < MaxTime
    /\ now' = now + 1
    /\ last' = Completed("tick", "s1", "jira", "u1",
                         [exc |-> NoExc, ret |-> FALSE, got |-> NoneResult])
    /\ UNCHANGED <<registry, tables, supplied, ncorrupt, calls, ciphers, issued>>

Times == 0..MaxTime

TimeData ==
    {JiraFull, ("token" :> Str("tok2")), ("token" :> Null)}
    \cup {JiraFull @@ ("created_at" :> Time(t)) : t \in Times}
    \cup {JiraFull @@ ("updated_at" :> Time(t)) : t \in Times}

NextTime ==
    \/ \E data \in TimeData :
          UpsertToken("s1", "jira", "u1", data, [c \in {"token"} |-> 1])
    \/ GetToken("s1", "jira", "u1")
    \/ DeleteToken("s1", "jira", "u1")
    \/ Tick

SpecTime == Init /\ [][NextTime]_vars

(***************************************************************************)
(* SpecCodec: a type with codec hooks is registered on a running instance  *)
(* and called with a domain object.                                        *)
(***************************************************************************)
CodecConfigs ==
    {TokenTypeConfig("custom_service_tokens", {"api_key", "api_secret"}, ser, de) :
        ser \in {NoHook} \cup SerializerHooks, de \in {NoHook} \cup DeserializerHooks}

CodecData ==
    CustomData
    \cup {("credentials" :> Credentials(d)) : d \in CustomData}
    \cup {("credentials" :> Null)}

NextCodec ==
    \/ \E config \in CodecConfigs : Register("s1", "custom-service", config)
    \/ CreateTable("custom_service_tokens")
    \/ \E data \in CodecData :
          UpsertToken("s1", "custom-service", "u1", data,
                      [c \in {"api_key", "api_secret"} |-> 1])
    \/ GetToken("s1", "custom-service", "u1")
    \/ DeleteToken("s1", "custom-service", "u1")

SpecCodec == Init /\ [][NextCodec]_vars

(***************************************************************************)
(* SpecGdrive: the built-in gdrive type, the one registered with codec     *)
(* hooks, is written with a Credentials object and with a flat mapping,    *)
(* beside a type without hooks.                                            *)
(***************************************************************************)
\* Credentials(token=..., refresh_token=..., token_uri=..., client_id=...,
\* client_secret=..., scopes=[...]) with .expiry set or left None, written
\* as the flat mapping the serializer makes of it
GdriveFlats ==
    {[c \in ModelFields("gdrive_tokens") |->
        CASE c = "token" -> Str("abc123")
          [] c = "refresh_token" -> rt
          [] c = "token_uri" -> Str("https://x.example")
          [] c = "client_id" -> Str("bob")
          [] c = "client_secret" -> cs
          [] c = "scopes" -> Str("[scope]")
          [] c = "expiry" -> ex] :
        rt \in {Null, Str(""), Str("tok2")}, cs \in {Null, Str("tok2")},
        ex \in {Null, Time(1)}}

GdriveData ==
    {("credentials" :> Credentials(flat)) : flat \in GdriveFlats} \cup GdriveFlats

NextGdrive ==
    \/ \E data \in GdriveData :
          UpsertToken("s1", "gdrive", "u1", data,
                      [c \in {"token", "refresh_token", "client_secret"} |-> 1])
    \/ GetToken("s1", "gdrive", "u1")
    \/ DeleteToken("s1", "gdrive", "u1")
    \/ \E data \in {JiraFull, ("token" :> Str(""))} :
          UpsertToken("s1", "jira", "u1", data, [c \in {"token"} |-> 1])
    \/ GetToken("s1", "jira", "u1")

SpecGdrive == Init /\ [][NextGdrive]_vars

(***************************************************************************)
(* SpecColor: the favorite color calls of two users on both instances of   *)
(* the one database, among credential calls and readings of the clock.     *)
(***************************************************************************)
Colors == {Str("red"), Str("blue")}

NextColor ==
    \/ \E st \in Storages, u \in Users, color \in Colors :
          UpsertFavoriteColor(st, u, color)
    \/ \E st \in Storages, u \in Users : GetFavoriteColor(st, u)
    \/ \E u \in Users : DeleteFavoriteColor("s1", u)
    \/ UpsertToken("s1", "jira", "u1", JiraFull, [c \in {"token"} |-> 1])
    \/ DeleteToken("s1", "jira", "u1")
    \/ Tick

SpecColor == Init /\ [][NextColor]_vars

(***************************************************************************)
(* SpecUnknown: upsert_token is called with keywords that name no column   *)
(* of the model, on keys with and without a row.                           *)
(***************************************************************************)
UnknownData ==
    { JiraFull,
      ("token" :> Str("tok2")) @@ ("server_url" :> Str("https://y.example")),
      JiraFull @@ ("bogus" :> Str("z")),
      ("username" :> Str("bob")) @@ ("bogus" :> Str("z")),
      ("token" :> Str("tok2")) @@ ("server_url" :> Str("https://x.example"))
          @@ ("metadata" :> Str("z")) }

NextUnknown ==
    \/ \E u \in Users, data \in UnknownData :
          UpsertToken("s1", "jira", u, data, [c \in {"token"} |-> 1])
    \/ \E u \in Users : GetToken("s1", "jira", u)
    \/ \E u \in Users : DeleteToken("s1", "jira", u)

SpecUnknown == Init /\ [][NextUnknown]_vars

(***************************************************************************)
(* SpecRelist: jira is registered again on a running instance with another *)
(* list of encrypted fields, before and after rows are written.            *)
(***************************************************************************)
RelistConfigs ==
    {TokenTypeConfig("jira_tokens", enc, NoHook, NoHook) :
        enc \in {{"token"}, {}, {"token", "server_url"}}}

RelistData ==
    { JiraFull,
      ("token" :> Str("tok2")) @@ ("server_url" :> Str("")) }

NextRelist ==
    \/ \E config \in RelistConfigs : Register("s1", "jira", config)
    \/ \E u \in Users, data \in RelistData :
          UpsertToken("s1", "jira", u, data, [c \in {"token", "server_url"} |-> 1])
    \/ \E u \in Users : GetToken("s1", "jira", u)
    \/ \E u \in Users : DeleteToken("s1", "jira", u)

SpecRelist == Init /\ [][NextRelist]_vars

(***************************************************************************)
(* SpecDefaults: rows of jira and github are written with some of their    *)
(* fields only, and read.                                                  *)
(***************************************************************************)
DefaultsData(token_type) ==
    IF token_type = "github"
    THEN { ("token" :> Str("abc123")),
           ("token" :> Str("tok2")) @@ ("server_url" :> Str("https://y.example"))
               @@ ("username" :> Str("bob")),
           ("username" :> Str("bob")) }
    ELSE { JiraFull, ("token" :> Str("tok2")) }

NextDefaults ==
    \/ \E t \in {"jira", "github"}, u \in Users : \E data \in DefaultsData(t) :
          UpsertToken("s1", t, u, data, [c \in {"token"} |-> 1])
    \/ \E t \in {"jira", "github"}, u \in Users : GetToken("s1", t, u)
    \/ \E t \in {"jira", "github"} : DeleteToken("s1", t, "u1")

SpecDefaults == Init /\ [][NextDefaults]_vars

(***************************************************************************)
(* SpecTwice: calls of upsert_token are made a second time, with what they *)
(* were made with, right after they returned True; the clock moves and     *)
(* every call draws its IV.                                                *)
(***************************************************************************)
TwiceTypes == {"jira", "gdrive"}

TwiceData(token_type) ==
    IF token_type = "jira"
    THEN { JiraFull, ("token" :> Str("tok2")) @@ ("username" :> Str("bob")) }
    ELSE { ("credentials" :> Credentials(flat)) :
              flat \in {g \in GdriveFlats : /\ g["refresh_token"] # Str("")
                                            /\ g["client_secret"] = Null
                                            /\ g["expiry"] = Null} }

\* one IV for each call, other than the IVs of the other calls
TwiceIvs == {[c \in {"token", "refresh_token", "client_secret"} |-> iv] : iv \in Nonces}

\* the call that has just returned True, made again
UpsertAgain(ivs) ==
    /\ last.op = "upsert" /\ last.ret
    /\ supplied[<<last.type, last.user>>].has
    /\ \E out \in {upsert_token(registry[last.inst], tables, StorageKey(last.inst), ivs,
                                 last.type, last.user,
                                 supplied[<<last.type, last.user>>].data, now)} :
          /\ \A m \in DOMAIN out.tables : MaxId(out.tables[m]) <= MaxRowId
          /\ tables' = out.tables
          /\ last' = [again |-> TRUE] @@
                     Completed("upsert", last.inst, last.type, last.user,
                               [exc |-> out.exc, ret |-> out.ret, got |-> NoneResult])
    /\ UNCHANGED <<registry, now, supplied, ncorrupt, calls, ciphers, issued>>

NextTwice ==
    \/ \E t \in TwiceTypes : \E data \in TwiceData(t) : \E ivs \in TwiceIvs :
          UpsertToken("s1", t, "u1", data, ivs)
    \/ \E ivs \in TwiceIvs : UpsertAgain(ivs)
    \/ \E t \in TwiceTypes : GetToken("s1", t, "u1")
    \/ \E t \in TwiceTypes : DeleteToken("s1", t, "u1")
    \/ Tick

SpecTwice == Init /\ [][NextTwice]_vars

(***************************************************************************)
(* SpecRewrite: two instances with different keys on one database; each    *)
(* writes, reads and deletes the jira rows, those of the other instance    *)
(* included, with all of the fields or with one of them.                   *)
(***************************************************************************)
RewriteData == { JiraFull, ("username" :> Str("bob")) }

NextRewrite ==
    \/ \E st \in Storages, u \in Users, data \in RewriteData :
          UpsertToken(st, "jira", u, data, [c \in {"token"} |-> 1])
    \/ \E st \in Storages, u \in Users : GetToken(st, "jira", u)
    \/ \E st \in Storages, u \in Users : DeleteToken(st, "jira", u)

SpecRewrite == Init /\ [][NextRewrite]_vars

(***************************************************************************)
(* SpecConc: two threads call one storage instance concurrently.  Each has *)
(* its own session (scoped_session), so an upsert_token or delete_token is *)
(* two database steps, the SELECT of .first() and the flush and commit,    *)
(* and the other thread's steps can fall between them.  get_token reads    *)
(* once.  The history variable supplied is not kept in this specification. *)
(***************************************************************************)
ConcStorage == "s1"

ConcData == {JiraFull,
             ("token" :> Str("tok2")) @@ ("server_url" :> Str("https://y.example"))}

\* registry lookup, SELECT and the encryption of the fields, up to the write
UpsertQuery(p, token_type, user_id, data, ivs) ==
    LET g == TokenRegistry_get(registry[ConcStorage], token_type)
        config == g.config
        enc == EncryptFields(config, StorageKey(ConcStorage), ivs, data)
    IN /\ calls[p] = Idle
       /\ g.ok /\ config.model \in DOMAIN tables /\ enc.ok
       /\ calls' = [calls EXCEPT ![p] =
             [pc |-> "queried", op |-> "upsert", type |-> token_type, user |-> user_id,
              existing |-> query_first(tables[config.model], user_id), sd |-> enc.sd]]
       /\ UNCHANGED <<registry, tables, now, last, supplied, ncorrupt, ciphers, issued>>

\* mutant: the UPDATE is committed column by column, token first
UpsertCommitTorn(p) ==
    /\ calls[p].pc = "queried" /\ calls[p].op = "upsert"
    /\ LET c == calls[p]
           config == TokenRegistry_get(registry[ConcStorage], c.type).config
           first == c.existing # {} /\ "token" \in DOMAIN c.sd /\ DOMAIN c.sd # {"token"}
           part == IF first THEN [x \in {"token"} |-> c.sd[x]] ELSE c.sd
           rest == [x \in DOMAIN c.sd \ {"token"} |-> c.sd[x]]
       IN \E w \in {upsert_write(tables[config.model], config, c.existing, c.user,
                                 part, now)} :
             /\ MaxId(w.rows) <= MaxRowId
             /\ tables' = [tables EXCEPT ![config.model] = w.rows]
             /\ IF first
                THEN /\ calls' = [calls EXCEPT ![p] = [c EXCEPT !.sd = rest]]
                     /\ UNCHANGED last
                ELSE /\ calls' = [calls EXCEPT ![p] = Idle]
                     /\ last' = Completed("upsert", ConcStorage, c.type, c.user,
                                          [exc |-> NoExc, ret |-> w.ok, got |-> NoneResult])
    /\ UNCHANGED <<registry, now, supplied, ncorrupt, ciphers, issued>>

\* flush and commit of the INSERT or UPDATE decided on by the query
UpsertCommit(p) ==
    /\ calls[p].pc = "queried" /\ calls[p].op = "upsert"
    /\ LET c == calls[p]
           config == TokenRegistry_get(registry[ConcStorage], c.type).config
       IN \E w \in {upsert_write(tables[config.model], config, c.existing, c.user,
                                 c.sd, now)} :
             /\ MaxId(w.rows) <= MaxRowId
             /\ tables' = [tables EXCEPT ![config.model] = w.rows]
             /\ last' = Completed("upsert", ConcStorage, c.type, c.user,
                                  [exc |-> NoExc, ret |-> w.ok, got |-> NoneResult])
    /\ calls' = [calls EXCEPT ![p] = Idle]
    /\ UNCHANGED <<registry, now, supplied, ncorrupt, ciphers, issued>>

\* registry lookup and SELECT of delete_token; without a row it returns False
DeleteQuery(p, token_type, user_id) ==
    LET g == TokenRegistry_get(registry[ConcStorage], token_type)
        m == g.config.model
        token_record == query_first(tables[m], user_id)
    IN /\ calls[p] = Idle
       /\ g.ok /\ m \in DOMAIN tables
       /\ IF token_record = {}
          THEN /\ last' = Completed("delete", ConcStorage, token_type, user_id,
                                    [exc |-> NoExc, ret |-> FALSE, got |-> NoneResult])
               /\ UNCHANGED calls
          ELSE /\ calls' = [calls EXCEPT ![p] =
                     [pc |-> "queried", op |-> "delete", type |-> token_type,
                      user |-> user_id, existing |-> token_record, sd |-> <<>>]]
               /\ UNCHANGED last
       /\ UNCHANGED <<registry, tables, now, supplied, ncorrupt, ciphers, issued>>

\* flush and commit of the DELETE
DeleteCommit(p) ==
    /\ calls[p].pc = "queried" /\ calls[p].op = "delete"
    /\ LET c == calls[p]
           m == TokenRegistry_get(registry[ConcStorage], c.type).config.model
       IN /\ tables' = [tables EXCEPT ![m] =
                          DeleteRow(tables[m], CHOOSE r \in c.existing : TRUE).rows]
          /\ last' = Completed("delete", ConcStorage, c.type, c.user,
                               [exc |-> NoExc, ret |-> TRUE, got |-> NoneResult])
    /\ calls' = [calls EXCEPT ![p] = Idle]
    /\ UNCHANGED <<registry, now, supplied, ncorrupt, ciphers, issued>>

NextConc ==
    \/ \E p \in Procs, u \in Users : \E data \in ConcData :
          UpsertQuery(p, "jira", u, data, [c \in {"token"} |-> 1])
    \/ \E p \in Procs : UpsertCommit(p)
    \/ \E p \in Procs, u \in Users : DeleteQuery(p, "jira", u)
    \/ \E p \in Procs : DeleteCommit(p)
    \/ \E u \in Users : GetToken(ConcStorage, "jira", u)

SpecConc == Init /\ [][NextConc]_vars

(***************************************************************************)
(* SpecRace: after some sequential calls, each of the two threads makes    *)
(* one upsert_token call for the same key, and the steps of the two calls  *)
(* interleave in every order.  A call keeps what it was called with and,   *)
(* as base, the tables as they were when the first of the two began.       *)
(***************************************************************************)
RaceUser == "u1"

\* the IV of a racing call differs from the IVs of the calls made before
RaceIvs == [c \in {"token"} |-> NumNonces]

\* the two calls supply the same fields, with different values
RaceData == {JiraFull,
             ("token" :> Str("tok2")) @@ ("server_url" :> Str("https://y.example"))}

RaceQuery(p, data) ==
    LET config == TokenRegistry_get(registry[ConcStorage], "jira").config
        enc == EncryptFields(config, StorageKey(ConcStorage), RaceIvs,
                             storage_data(config, data).v)
        began == {q \in Procs : calls[q] # Idle}
    IN /\ calls[p] = Idle
       /\ calls' = [calls EXCEPT ![p] =
             [pc |-> "racing", op |-> "upsert", type |-> "jira", user |-> RaceUser,
              existing |-> query_first(tables[config.model], RaceUser), sd |-> enc.sd,
              data |-> data, ret |-> FALSE,
              base |-> IF began = {} THEN tables
                       ELSE calls[CHOOSE q \in began : TRUE].base]]
       /\ UNCHANGED <<registry, tables, now, last, supplied, ncorrupt, ciphers, issued>>

RaceCommit(p) ==
    /\ calls[p].pc = "racing"
    /\ LET c == calls[p]
           config == TokenRegistry_get(registry[ConcStorage], c.type).config
       IN \E w \in {upsert_write(tables[config.model], config, c.existing, c.user,
                                 c.sd, now)} :
             /\ tables' = [tables EXCEPT ![config.model] = w.rows]
             /\ last' = Completed("upsert", ConcStorage, c.type, c.user,
                                  [exc |-> NoExc, ret |-> w.ok, got |-> NoneResult])
             /\ calls' = [calls EXCEPT ![p] = [c EXCEPT !.pc = "done", !.ret = w.ok]]
    /\ UNCHANGED <<registry, now, supplied, ncorrupt, ciphers, issued>>

NextRace ==
    \/ /\ \A p \in Procs : calls[p] = Idle
       /\ \/ \E data \in JiraData :
                UpsertToken(ConcStorage, "jira", RaceUser, data, [c \in {"token"} |-> 1])
          \/ DeleteToken(ConcStorage, "jira", RaceUser)
    \/ \E p \in Procs : \E data \in RaceData : RaceQuery(p, data)
    \/ \E p \in Procs : RaceCommit(p)
    \/ GetToken(ConcStorage, "jira", RaceUser)

SpecRace == Init /\ [][NextRace]_vars

(***************************************************************************)
(* SpecCipher: encrypt and decrypt are called on three TokenEncryption     *)
(* instances, two built from one key and one from another, with text of    *)
(* every kind, with each other's tokens and with tokens of which one       *)
(* character was changed.  os.urandom is taken never to return the same IV *)
(* twice.                                                                  *)
(***************************************************************************)
EncryptionKey(e) == IF e = "e3" THEN "K2" ELSE "K1"

\* "", a text of NUL and a two-, a three- and a four-byte character, a text
\* with a lone surrogate, and a text of 32 bytes, whose token has no padding
Plaintexts ==
    { Text(<<>>), Text(<<0, 233, 8364, 128272>>), Text(<<65, 55296>>),
      Text([i \in 1..32 |-> 65]) }

\* text that no encrypt call returned
ArbitraryText == {Text(<<>>), Text(<<65>>), Text(<<55296>>)}

DecryptInputs ==
    {issued[i].out : i \in 1..Len(issued)}
    \cup UNION {ChangeOneCharacter(issued[i].out) : i \in 1..Len(issued)}
    \cup ArbitraryText

InitCipher ==
    /\ registry = [st \in Storages |-> _initialize_registry]
    /\ tables = _create_tables
    /\ now = 0
    /\ last = Completed("init", "s1", "jira", "u1",
                        [exc |-> NoExc, ret |-> FALSE, got |-> NoneResult])
    /\ supplied = [k \in HistoryTypes \X Users |-> NoSupplied]
    /\ ncorrupt = 0
    /\ calls = [p \in Procs |-> Idle]
    /\ ciphers = [x \in Storages \cup Encryptions |->
                     IF x \in Encryptions THEN EncryptionKey(x) ELSE NoKey]
    /\ issued = <<>>

NewTokenEncryption(e, encryption_key, env) ==
    \E out \in {TokenEncryption_init(encryption_key, env)} :
       /\ ciphers' = IF out.err = NoError THEN [ciphers EXCEPT ![e] = out.key]
                     ELSE ciphers
       /\ last' = [op |-> "TokenEncryption", inst |-> e,
                   encryption_key |-> encryption_key, env |-> env, err |-> out.err]
       /\ UNCHANGED <<registry, tables, now, supplied, ncorrupt, calls, issued>>

Encrypt(e, plaintext) ==
    /\ ciphers[e] # NoKey
    /\ \E iv \in {Len(issued) + 1} \cap Nonces :
       \E out \in {TokenEncryption_encrypt(ciphers[e], iv, plaintext)} :
          /\ issued' = IF out.err = NoError
                       THEN Append(issued, [inst |-> e, plaintext |-> plaintext,
                                            iv |-> iv, out |-> out.out])
                       ELSE issued
          /\ last' = [op |-> "encrypt", inst |-> e, arg |-> plaintext,
                      err |-> out.err, out |-> out.out]
    /\ UNCHANGED <<registry, tables, now, supplied, ncorrupt, calls, ciphers>>

Decrypt(e, encrypted) ==
    /\ ciphers[e] # NoKey
    /\ \E out \in {TokenEncryption_decrypt(ciphers[e], encrypted)} :
          last' = [op |-> "decrypt", inst |-> e, arg |-> encrypted,
                   err |-> out.err, out |-> out.out]
    /\ UNCHANGED <<registry, tables, now, supplied, ncorrupt, calls, ciphers, issued>>

NextCipher ==
    \/ \E e \in Encryptions, plaintext \in Plaintexts : Encrypt(e, plaintext)
    \/ \E e \in Encryptions : \E encrypted \in DecryptInputs : Decrypt(e, encrypted)

KeyArguments == {NoKey, "", "invalid-key-too-short"} \cup Keys

NextKeyInit ==
    \E e \in Encryptions, encryption_key \in KeyArguments, env \in KeyArguments :
       NewTokenEncryption(e, encryption_key, env)

SpecKeyInit == Init /\ [][NextKeyInit]_vars

SpecCipher == InitCipher /\ [][NextCipher]_vars

(***************************************************************************)
(* SpecBoot: the storage instances are not built yet.  TokenStorage(...)   *)
(* is called with and without a key, on a database that has no tables at   *)
(* first, and the instances that get built are used.                       *)
(***************************************************************************)
\* Base.metadata.create_all on a database that holds the tables tabs
create_all(tabs) ==
    [m \in DOMAIN tabs \cup DOMAIN _create_tables |->
        IF m \in DOMAIN tabs THEN tabs[m] ELSE {}]

\* mutant: the tables are created before the key is looked at
TokenStorage_initTablesFirst(tabs, encryption_key, env) ==
    LET enc == TokenEncryption_init(encryption_key, env)
    IN [err |-> enc.err, key |-> enc.key,
        registry |-> IF enc.err = NoError THEN _initialize_registry ELSE <<>>,
        tables |-> create_all(tabs)]

\* TokenStorage.__init__: engine and session, then TokenEncryption(encryption_key),
\* then the registry, then _create_tables
TokenStorage_init(tabs, encryption_key, env) ==
    LET enc == TokenEncryption_init(encryption_key, env)
    IN IF enc.err # NoError
       THEN [err |-> enc.err, key |-> NoKey, registry |-> <<>>, tables |-> tabs]
       ELSE [err |-> NoError, key |-> enc.key, registry |-> _initialize_registry,
             tables |-> create_all(tabs)]

InitBoot ==
    /\ registry = [st \in Storages |-> <<>>]
    /\ tables = [m \in {} |-> {}]
    /\ now = 0
    /\ last = Completed("init", "s1", "jira", "u1",
                        [exc |-> NoExc, ret |-> FALSE, got |-> NoneResult])
    /\ supplied = [k \in HistoryTypes \X Users |-> NoSupplied]
    /\ ncorrupt = 0
    /\ calls = [p \in Procs |-> Idle]
    /\ ciphers = [x \in Storages \cup Encryptions |-> NoKey]
    /\ issued = <<>>

\* storage = TokenStorage(db_file=..., encryption_key=...); when __init__
\* raises there is no instance
NewTokenStorage(st, encryption_key, env) ==
    \E out \in {TokenStorage_init(tables, encryption_key, env)} :
       /\ tables' = out.tables
       /\ ciphers' = IF out.err = NoError THEN [ciphers EXCEPT ![st] = out.key]
                     ELSE ciphers
       /\ registry' = IF out.err = NoError THEN [registry EXCEPT ![st] = out.registry]
                      ELSE registry
       /\ last' = [op |-> "TokenStorage", inst |-> st,
                   encryption_key |-> encryption_key, env |-> env, err |-> out.err]
       /\ UNCHANGED <<now, supplied, ncorrupt, calls, issued>>

BootKeys(st) == {NoKey, "", "invalid-key-too-short", StorageKey(st)}

NextBoot ==
    \/ \E st \in Storages : \E encryption_key \in BootKeys(st) :
          \E env \in {NoKey, StorageKey(st)} : NewTokenStorage(st, encryption_key, env)
    \/ \E st \in Storages, u \in Users :
          /\ ciphers[st] # NoKey
          /\ UpsertToken(st, "jira", u, JiraFull, [c \in {"token"} |-> 1])
    \/ \E st \in Storages, u \in Users :
          ciphers[st] # NoKey /\ GetToken(st, "jira", u)
    \/ \E st \in Storages, u \in Users :
          ciphers[st] # NoKey /\ DeleteToken(st, "jira", u)

SpecBoot == InitBoot /\ [][NextBoot]_vars

(***************************************************************************)
(* SpecTypes: register called over and over on the registry of a running   *)
(* instance, for names that are registered and for names that are not.     *)
(***************************************************************************)
TypeNames == {"jira", "rhcp", "custom-service", "new-service"}

TypeConfigs ==
    { CustomServiceConfig,
      TokenTypeConfig("jira_tokens", {"token"}, NoHook, NoHook),
      TokenTypeConfig("jira_tokens", {}, NoHook, NoHook),
      TokenTypeConfig("jira_tokens", {"token", "password"}, NoHook, NoHook),
      TokenTypeConfig("gdrive_tokens", {"token"}, "serialize_gdrive_credentials", NoHook) }

NextTypes == \E token_type \in TypeNames, config \in TypeConfigs :
                Register("s1", token_type, config)

SpecTypes == Init /\ [][NextTypes]_vars

(***************************************************************************)
(* SpecNewType: a type whose model is declared outside token_storage.py is *)
(* registered on a running instance; its table is created by the caller,   *)
(* before or after, or not at all.                                         *)
(***************************************************************************)
NewType == "custom-service"

NewTypeData ==
    CustomData \cup
    { ("api_key" :> Str("tok2")) @@ ("api_secret" :> Str("abc123"))
          @@ ("endpoint" :> Str("https://y.example")) }

NextNewType ==
    \/ Register("s1", NewType, CustomServiceConfig)
    \/ CreateTable(CustomServiceConfig.model)
    \/ \E u \in Users, data \in NewTypeData :
          UpsertToken("s1", NewType, u, data, [c \in {"api_key", "api_secret"} |-> 1])
    \/ \E u \in Users : GetToken("s1", NewType, u)
    \/ \E u \in Users : DeleteToken("s1", NewType, u)

SpecNewType == Init /\ [][NextNewType]_vars

(***************************************************************************)
(* SpecRead: one thread writes (upsert_token, delete_token) while another  *)
(* reads the same keys with get_token.  The reader keeps what it got and   *)
(* the call the writer was inside of at that moment.                       *)
(***************************************************************************)
Writer == "p1"

Reader == "p2"

ReadToken(token_type, user_id) ==
    \E out \in {get_token(registry[ConcStorage], tables, StorageKey(ConcStorage),
                          token_type, user_id)} :
       /\ calls' = [calls EXCEPT ![Reader] =
             [pc |-> "read", op |-> "get", type |-> token_type, user |-> user_id,
              got |-> out.got, during |-> calls[Writer]]]
       /\ last' = Completed("get", ConcStorage, token_type, user_id,
                            [exc |-> out.exc, ret |-> FALSE, got |-> out.got])
       /\ UNCHANGED <<registry, tables, now, supplied, ncorrupt, ciphers, issued>>

NextRead ==
    \/ \E data \in JiraData :
          UpsertQuery(Writer, "jira", RaceUser, data, [c \in {"token"} |-> 1])
    \/ UpsertCommit(Writer)
    \/ DeleteQuery(Writer, "jira", RaceUser)
    \/ DeleteCommit(Writer)
    \/ ReadToken("jira", RaceUser)

SpecRead == Init /\ [][NextRead]_vars

(***************************************************************************)
(* Vocabulary of the claims.                                               *)
(***************************************************************************)
EngineOps == {"upsert", "get", "delete"}

\* the table a type name resolves to on storage st
ModelOf(st, token_type) == TokenRegistry_get(registry[st], token_type).config.model

\* a row for user_id sits in table m
HasRow(tabs, m, user_id) == m \in DOMAIN tabs /\ \E r \in tabs[m] : r.user_id = user_id

RowOf(tabs, m, user_id) == CHOOSE r \in tabs[m] : r.user_id = user_id

\* the storages and types for which history holds the last successful upsert
SuppliedKeys ==
    {x \in Storages \X OpTypes \X Users :
        /\ supplied[<<x[2], x[3]>>].has
        /\ supplied[<<x[2], x[3]>>].key = StorageKey(x[1])
        /\ is_registered(registry[x[1]], x[2])}

(***************************************************************************)
(* C1.  After upsert_token(type, user, fields) returned True, and with no  *)
(* later upsert or delete of that (type, user), get_token(type, user) on   *)
(* the same storage returns a dict in which every supplied field (every    *)
(* supplied name that is a column of the type) has the supplied plaintext. *)
(***************************************************************************)
C1_RoundTrip ==
    \A x \in SuppliedKeys :
        LET data == supplied[<<x[2], x[3]>>].data
            out == get_token(registry[x[1]], tables, StorageKey(x[1]), x[2], x[3])
        IN /\ out.exc = NoExc
           /\ out.got.kind = "dict"
           /\ \A c \in DOMAIN data \cap ModelFields(ModelOf(x[1], x[2])) :
                 out.got.f[c] = data[c]

\* a get_token has returned the plaintext of an encrypted field upserted before
C1_Witness ==
    /\ last.op = "get" /\ last.got.kind = "dict"
    /\ supplied[<<last.type, last.user>>].has
    /\ last.got.f["token"] = Str("abc123")
    /\ supplied[<<last.type, last.user>>].data["token"] = Str("abc123")

(***************************************************************************)
(* C2.  In every reachable state, in every row written by upsert_token,    *)
(* the raw value of an encrypted field that was supplied non-empty is a    *)
(* ciphertext different from the supplied plaintext, and the raw value of  *)
(* a supplied field that is not encrypted equals the supplied value.       *)
(***************************************************************************)
C2_SelectiveEncryption ==
    \A x \in SuppliedKeys :
        LET data == supplied[<<x[2], x[3]>>].data
            config == TokenRegistry_get(registry[x[1]], x[2]).config
            m == config.model
        IN /\ HasRow(tables, m, x[3])
           /\ \A c \in DOMAIN data \cap ModelFields(m) :
                 LET raw == RowOf(tables, m, x[3]).f[c]
                 IN IF c \in config.encrypted_fields
                    THEN Truthy(data[c]) => (raw.kind = "fernet" /\ raw # data[c])
                    ELSE raw = data[c]

\* a row holds a ciphertext beside a verbatim field
C2_Witness ==
    \E x \in SuppliedKeys :
        /\ x[2] = "jira" /\ HasRow(tables, "jira_tokens", x[3])
        /\ RowOf(tables, "jira_tokens", x[3]).f["token"].kind = "fernet"
        /\ RowOf(tables, "jira_tokens", x[3]).f["username"] = Str("bob")
        /\ supplied[<<x[2], x[3]>>].data["username"] = Str("bob")

(***************************************************************************)
(* C7.  delete_token(type, user) on a registered type returns True exactly *)
(* when a row for (type, user) existed at the call, and afterwards no such *)
(* row exists; when none existed it returns False and changes nothing, and *)
(* a get_token that follows returns None.                                  *)
(***************************************************************************)
C7_DeleteStep ==
    LET st == last'.inst
        m == ModelOf(st, last'.type)
        existed == HasRow(tables, m, last'.user)
    IN (last'.op = "delete" /\ is_registered(registry[st], last'.type)) =>
          /\ last'.exc = NoExc
          /\ last'.ret = existed
          /\ ~HasRow(tables', m, last'.user)
          /\ ~existed => tables' = tables
          /\ get_token(registry'[st], tables', StorageKey(st), last'.type,
                       last'.user).got = NoneResult

C7_Delete == [][C7_DeleteStep]_vars

\* a delete_token has removed a row and returned True
C7_Witness ==
    /\ last.op = "delete" /\ last.ret
    /\ ~HasRow(tables, ModelOf(last.inst, last.type), last.user)

(***************************************************************************)
(* C8.  Each (type, user) record is absent or present: it becomes present  *)
(* only by an upsert_token on it that returns True, stays present under    *)
(* further upserts, and becomes absent only by a delete_token on it that   *)
(* returns True; no get_token, failed upsert or operation on another key   *)
(* changes its state.                                                      *)
(***************************************************************************)
LastHit(l, m, user_id, op) ==
    /\ l.op = op /\ l.ret /\ l.user = user_id
    /\ is_registered(registry[l.inst], l.type) /\ ModelOf(l.inst, l.type) = m

C8_RecordStep ==
    \A m \in DOMAIN tables, u \in Users :
        /\ (~HasRow(tables, m, u) /\ HasRow(tables', m, u)) => LastHit(last', m, u, "upsert")
        /\ (HasRow(tables, m, u) /\ ~HasRow(tables', m, u)) => LastHit(last', m, u, "delete")
        /\ LastHit(last', m, u, "upsert") => HasRow(tables', m, u)
        /\ LastHit(last', m, u, "delete") => ~HasRow(tables', m, u)

C8_RecordStateMachine == [][C8_RecordStep]_vars

\* a record has been created, written again and is still present
C8_Witness ==
    /\ last.op = "upsert" /\ last.ret
    /\ HasRow(tables, "jira_tokens", last.user)
    /\ RowOf(tables, "jira_tokens", last.user).f["token"].s = "tok2"
    /\ RowOf(tables, "jira_tokens", last.user).f["username"] = Null

(***************************************************************************)
(* C10.  A successful upsert_token for a key that already has a row fully  *)
(* replaces the record's field values with those of the new call: no field *)
(* value written by an earlier upsert is left in the row unless the new    *)
(* call supplied it again.                                                 *)
(***************************************************************************)
C10_FullReplace ==
    \A x \in SuppliedKeys :
        LET data == supplied[<<x[2], x[3]>>].data
            m == ModelOf(x[1], x[2])
        IN \A c \in ModelFields(m) \ DOMAIN data :
              RowOf(tables, m, x[3]).f[c] = ModelDefault(m, c)

(***************************************************************************)
(* C3.  upsert_token, get_token and delete_token called with a type name   *)
(* that is not registered at that moment raise the KeyError whose message  *)
(* lists every type name registered at that moment, and leave every row    *)
(* as it was.                                                              *)
(***************************************************************************)
C3_UnknownTypeStep ==
    LET reg == registry[last'.inst]
        listed == last'.exc.available
    IN (last'.op \in EngineOps /\ ~is_registered(reg, last'.type)) =>
          /\ last'.exc.exc = "KeyError"
          /\ last'.exc.token_type = last'.type
          /\ Len(listed) = Len(reg)
          /\ \A i \in 1..Len(reg) : listed[i] = reg[i].name
          /\ tables' = tables

C3_UnknownType == [][C3_UnknownTypeStep]_vars

\* the KeyError has been raised on a storage whose registry has grown since
\* construction, while rows were stored
C3_Witness ==
    /\ last.op \in EngineOps /\ last.exc.exc = "KeyError"
    /\ Len(registry[last.inst]) > Len(_initialize_registry)
    /\ HasRow(tables, "jira_tokens", "u1")

(***************************************************************************)
(* C4.  If a row exists for (type, user) and decryption of any one of its  *)
(* non-empty encrypted fields fails (wrong key, corrupted or tampered      *)
(* value), get_token returns None for the whole record: no exception, and  *)
(* never a dict with some fields decrypted and others not.                 *)
(***************************************************************************)
\* the encrypted columns of the row whose stored value is truthy
EncryptedStored(config, row) ==
    {c \in config.encrypted_fields \cap ModelFields(config.model) : Truthy(row.f[c])}

\* storage st cannot decrypt one of them
Undecryptable(st, config, row) ==
    \E c \in EncryptedStored(config, row) :
        ~(row.f[c].kind = "fernet" /\ row.f[c].k = StorageKey(st) /\ row.f[c].mac = "ok")

\* the (storage, type, user) whose row exists
StoredKeys ==
    {x \in Storages \X OpTypes \X Users :
        /\ is_registered(registry[x[1]], x[2])
        /\ HasRow(tables, ModelOf(x[1], x[2]), x[3])}

C4_DecryptFailureIsNone ==
    \A x \in StoredKeys :
        LET config == TokenRegistry_get(registry[x[1]], x[2]).config
            row == RowOf(tables, config.model, x[3])
            out == get_token(registry[x[1]], tables, StorageKey(x[1]), x[2], x[3])
        IN /\ out.exc = NoExc
           /\ Undecryptable(x[1], config, row) => out.got = NoneResult
           /\ out.got.kind = "dict" =>
                 \A c \in EncryptedStored(config, row) : out.got.f[c].kind = "str"

\* a get_token has returned None for a row of which the calling storage can
\* decrypt one encrypted field and cannot decrypt the other
C4_Witness ==
    /\ last.op = "get" /\ last.got = NoneResult /\ last.type = "custom-service"
    /\ HasRow(tables, "custom_service_tokens", last.user)
    /\ LET row == RowOf(tables, "custom_service_tokens", last.user)
       IN /\ decrypt(StorageKey(last.inst), row.f["api_key"]).ok
          /\ ~decrypt(StorageKey(last.inst), row.f["api_secret"]).ok

(***************************************************************************)
(* C5.  Of two stores that differ only in that one holds an undecryptable  *)
(* row for (type, user) and the other holds no row for it, get_token(type, *)
(* user) has the same outcome in both: the same None, no exception.        *)
(***************************************************************************)
C5_UndecryptableLikeAbsent ==
    \A x \in StoredKeys :
        LET config == TokenRegistry_get(registry[x[1]], x[2]).config
            m == config.model
            row == RowOf(tables, m, x[3])
            without == [tables EXCEPT ![m] = @ \ {row}]
            here == get_token(registry[x[1]], tables, StorageKey(x[1]), x[2], x[3])
            there == get_token(registry[x[1]], without, StorageKey(x[1]), x[2], x[3])
        IN Undecryptable(x[1], config, row) =>
              (here.exc = there.exc /\ here.got = there.got)

\* a get_token has returned None for a row written under the other key
C5_Witness ==
    /\ last.op = "get" /\ last.got = NoneResult /\ last.type = "jira"
    /\ HasRow(tables, "jira_tokens", last.user)
    /\ LET v == RowOf(tables, "jira_tokens", last.user).f["token"]
       IN v.kind = "fernet" /\ v.mac = "ok" /\ v.k # StorageKey(last.inst)

(***************************************************************************)
(* C6.  get_token never changes the store, whatever it returns: after a    *)
(* get_token that returned None because decryption failed the row is still *)
(* there, and a storage holding the key it was written with still reads    *)
(* the values that were written.                                           *)
(***************************************************************************)
C6_GetStep ==
    (last'.op = "get") =>
        /\ tables' = tables
        /\ registry' = registry
        /\ \A st \in Storages :
              LET key == <<last'.type, last'.user>>
              IN (supplied[key].has /\ supplied[key].key = StorageKey(st)
                    /\ is_registered(registry[st], last'.type)) =>
                 LET out == get_token(registry'[st], tables', StorageKey(st),
                                      last'.type, last'.user)
                 IN /\ out.got.kind = "dict"
                    /\ \A c \in DOMAIN supplied[key].data \cap DOMAIN out.got.f :
                          out.got.f[c] = supplied[key].data[c]

C6_GetReadOnly == [][C6_GetStep]_vars

\* a get_token under the wrong key has returned None and the row is there
C6_Witness ==
    /\ last.op = "get" /\ last.got = NoneResult
    /\ supplied[<<last.type, last.user>>].has
    /\ supplied[<<last.type, last.user>>].key # StorageKey(last.inst)
    /\ is_registered(registry[last.inst], last.type)
    /\ HasRow(tables, ModelOf(last.inst, last.type), last.user)

(***************************************************************************)
(* C9.  In every reachable state, also those reached by interleaved        *)
(* concurrent upserts and deletes, each type's table holds at most one row *)
(* per user_id.                                                            *)
(***************************************************************************)
C9_OneRowPerUser ==
    \A m \in DOMAIN tables : \A r, q \in tables[m] : r.user_id = q.user_id => r = q

\* two upsert_token calls for one user were both past their query, both on
\* the insert path, and one has committed its row
C9_Witness ==
    \E p, q \in Procs :
        /\ p # q
        /\ calls[p] = Idle /\ last.op = "upsert" /\ last.ret
        /\ calls[q].pc = "queried" /\ calls[q].op = "upsert" /\ calls[q].existing = {}
        /\ calls[q].user = last.user
        /\ HasRow(tables, "jira_tokens", last.user)

(***************************************************************************)
(* C11.  created_at of a record is set once, by the upsert_token that      *)
(* inserts the row: every later upsert_token on the existing row leaves    *)
(* created_at as it was, whatever the caller passes.                       *)
(***************************************************************************)
C11_CreatedOnceStep ==
    \A m \in DOMAIN tables, u \in Users :
        (last'.op = "upsert" /\ HasRow(tables, m, u) /\ HasRow(tables', m, u)) =>
            RowOf(tables', m, u).created_at = RowOf(tables, m, u).created_at

C11_CreatedOnce == [][C11_CreatedOnceStep]_vars

(***************************************************************************)
(* C12.  Every upsert_token that returns True sets the row's updated_at to *)
(* the time of that write, so updated_at never decreases and is never      *)
(* earlier than created_at; a failing operation and get_token leave        *)
(* updated_at as it was.                                                   *)
(***************************************************************************)
C12_UpdatedStep ==
    \A u \in Users :
        LET m == "jira_tokens"
            before == RowOf(tables, m, u)
            after == RowOf(tables', m, u)
        IN /\ (last'.op = "upsert" /\ last'.ret /\ last'.user = u) =>
                 /\ HasRow(tables', m, u)
                 /\ after.updated_at = now
                 /\ after.updated_at >= after.created_at
                 /\ HasRow(tables, m, u) => after.updated_at >= before.updated_at
           /\ (last'.op \in EngineOps /\ ~last'.ret
                  /\ HasRow(tables, m, u) /\ HasRow(tables', m, u)) =>
                 after.updated_at = before.updated_at

C12_UpdatedAtBumped == [][C12_UpdatedStep]_vars

(***************************************************************************)
(* C13.  For a registered type, every failure inside upsert_token after    *)
(* the type has been resolved (storage, encryption or serializer error)    *)
(* makes it return False without raising, and leaves the store as it was.  *)
(***************************************************************************)
C13_UpsertFailureStep ==
    (last'.op = "upsert" /\ is_registered(registry[last'.inst], last'.type)) =>
        /\ last'.exc = NoExc
        /\ ~last'.ret => tables' = tables

C13_UpsertFailureIsFalse == [][C13_UpsertFailureStep]_vars

(***************************************************************************)
(* C14.  The only exception that escapes upsert_token, get_token or        *)
(* delete_token is the unknown-type KeyError, and it escapes only when the *)
(* type name is not registered; a failure in the store, the cipher or a    *)
(* codec hook becomes False (upsert, delete) or None (get).                *)
(***************************************************************************)
C14_OnlyUnknownTypeStep ==
    (last'.op \in EngineOps /\ last'.exc # NoExc) =>
        /\ ~is_registered(registry[last'.inst], last'.type)
        /\ last'.exc = KeyError(last'.type, list_types(registry[last'.inst]))

C14_OnlyUnknownTypeEscapes == [][C14_OnlyUnknownTypeStep]_vars

(***************************************************************************)
(* C15.  An upsert_token or delete_token on key (type, user) leaves the    *)
(* row of every other key as it was: the rows of other users in the same   *)
(* table and every row of the other tables.                                *)
(***************************************************************************)
\* the rows of the tables that belong to other keys than (m, user_id)
OtherRows(tabs, m, user_id) ==
    [x \in DOMAIN tabs |-> {r \in tabs[x] : x # m \/ r.user_id # user_id}]

C15_IsolationStep ==
    (last'.op \in {"upsert", "delete"} /\ is_registered(registry[last'.inst], last'.type)) =>
        LET m == ModelOf(last'.inst, last'.type)
        IN OtherRows(tables', m, last'.user) = OtherRows(tables, m, last'.user)

C15_Isolation == [][C15_IsolationStep]_vars

(***************************************************************************)
(* C16.  Under every interleaving of two concurrent upsert_token calls for *)
(* one key the calls take effect in some serial order: when both are done  *)
(* the key has exactly one row, and its field values are those that the    *)
(* two calls made one after the other, in one of the two orders, produce.  *)
(***************************************************************************)
\* the field values of the key's row after the calls a and then b, made one
\* after the other on the tables base
SerialFields(base, a, b) ==
    LET key == StorageKey(ConcStorage)
        reg == registry[ConcStorage]
        one == upsert_token(reg, base, key, RaceIvs, a.type, a.user, a.data, now).tables
        two == upsert_token(reg, one, key, RaceIvs, b.type, b.user, b.data, now).tables
    IN {r.f : r \in query_first(two["jira_tokens"], RaceUser)}

C16_SerialOrder ==
    (\A p \in Procs : calls[p].pc = "done") =>
        LET a == calls["p1"]
            b == calls["p2"]
            rows == {r \in tables["jira_tokens"] : r.user_id = RaceUser}
        IN /\ Cardinality(rows) = 1
           /\ {r.f : r \in rows} \in {SerialFields(a.base, a, b), SerialFields(a.base, b, a)}

(***************************************************************************)
(* C17.  A get_token that runs while an upsert_token or delete_token on    *)
(* the same key is between its query and its commit returns the complete   *)
(* record as it was before the write, the complete record as it is after   *)
(* the write, or None: never a row of which only a part is written.        *)
(***************************************************************************)
\* what get_token returns for the key whose row, if any, is in rows
RecordView(rows) ==
    IF rows = {} THEN NoneResult
    ELSE token_data(TokenRegistry_get(registry[ConcStorage], "jira").config,
                    StorageKey(ConcStorage), CHOOSE r \in rows : TRUE)

\* the key's row once the write c, made on the row it queried, is committed
RowAfter(c) ==
    IF c.op = "delete" THEN {}
    ELSE upsert_write(c.existing, TokenRegistry_get(registry[ConcStorage], c.type).config,
                      c.existing, c.user, c.sd, now).rows

C17_NoTornRead ==
    LET r == calls[Reader]
    IN (r.pc = "read" /\ r.during.pc = "queried" /\ r.during.user = r.user) =>
          r.got \in {RecordView(r.during.existing), RecordView(RowAfter(r.during)),
                     NoneResult}

\* a get_token has returned a dict while an upsert_token that changes two
\* columns of that row was between its query and its commit
C17_Witness ==
    LET r == calls[Reader]
    IN /\ r.pc = "read" /\ r.got.kind = "dict"
       /\ r.during.pc = "queried" /\ r.during.op = "upsert" /\ r.during.user = r.user
       /\ r.during.existing # {}
       /\ RecordView(RowAfter(r.during)).f["token"] # r.got.f["token"]
       /\ RecordView(RowAfter(r.during)).f["username"] # r.got.f["username"]

(***************************************************************************)
(* C18.  register(name, config) inserts or overwrites: after it get(name)  *)
(* returns that config and get of every other name returns the config, or  *)
(* raises, as before, so that get(name) is always the config of the most   *)
(* recent register of name; registering the same (name, config) once more  *)
(* leaves the registry as it is; and is_registered(name) is true exactly   *)
(* when get(name) does not raise.                                          *)
(***************************************************************************)
C18_RegisterStep ==
    (last'.op = "register" /\ last' # last) =>
        LET st == last'.inst
            before == registry[st]
            after == registry'[st]
        IN /\ TokenRegistry_get(after, last'.type).ok
           /\ TokenRegistry_get(after, last'.type).config = last'.config
           /\ \A n \in (TypeNames \cup AllTypes) \ {last'.type} :
                 /\ TokenRegistry_get(after, n).ok = TokenRegistry_get(before, n).ok
                 /\ TokenRegistry_get(after, n).config = TokenRegistry_get(before, n).config
           /\ register(after, last'.type, last'.config) = after
           /\ \A n \in TypeNames \cup AllTypes :
                 is_registered(after, n) <=> TokenRegistry_get(after, n).ok

C18_RegisterOverwrites == [][C18_RegisterStep]_vars

\* a name registered at construction has been registered again with another
\* config, and get returns the new one
C18_Witness ==
    /\ last.op = "register" /\ last.type = "jira"
    /\ last.config = CustomServiceConfig
    /\ TokenRegistry_get(registry["s1"], "jira").config = CustomServiceConfig
    /\ is_registered(registry["s1"], "new-service")

(***************************************************************************)
(* C19.  list_types() holds every registered name exactly once, in the     *)
(* order of first registration: registering a new name appends it, and     *)
(* registering a name again leaves the list as it is.                      *)
(***************************************************************************)
C19_ListStep ==
    (last'.op = "register" /\ last' # last) =>
        LET before == list_types(registry[last'.inst])
            after == list_types(registry'[last'.inst])
        IN /\ after = IF \E i \in 1..Len(before) : before[i] = last'.type
                      THEN before ELSE Append(before, last'.type)
           /\ \A i, j \in 1..Len(after) : after[i] = after[j] => i = j
           /\ \A n \in TypeNames \cup AllTypes :
                 is_registered(registry'[last'.inst], n) <=>
                    \E i \in 1..Len(after) : after[i] = n

C19_ListOrder == [][C19_ListStep]_vars

\* two new names were registered, then the first name of the list again
C19_Witness ==
    /\ last.op = "register" /\ last.type = "jira"
    /\ last.config = TokenTypeConfig("jira_tokens", {}, NoHook, NoHook)
    /\ list_types(registry["s1"]) =
          <<"jira", "github", "gdrive", "rhcp", "new-service", "custom-service">>

(***************************************************************************)
(* C20.  Once a new type is registered on a running instance and the table *)
(* of its model exists in the database, upsert_token on it returns True    *)
(* and stores its encrypted fields as ciphertext and its other fields      *)
(* verbatim, get_token returns the values stored, and delete_token of a    *)
(* stored token returns True and removes it.                               *)
(***************************************************************************)
\* what a call on the new type has to do when it completes
NewTypeSucceeds ==
    LET config == TokenRegistry_get(registry[last'.inst], NewType).config
        m == config.model
        u == last'.user
    IN /\ last'.exc = NoExc
       /\ last'.op = "upsert" =>
             /\ last'.ret
             /\ HasRow(tables', m, u)
             /\ \A c \in DOMAIN supplied'[<<NewType, u>>].data :
                   LET raw == RowOf(tables', m, u).f[c]
                       v == supplied'[<<NewType, u>>].data[c]
                   IN IF c \in config.encrypted_fields
                      THEN raw.kind = "fernet" /\ raw # v
                           /\ decrypt(StorageKey(last'.inst), raw) = [ok |-> TRUE, v |-> v]
                      ELSE raw = v
       /\ (last'.op = "get" /\ HasRow(tables, m, u)) =>
             /\ last'.got.kind = "dict"
             /\ \A c \in DOMAIN supplied[<<NewType, u>>].data :
                   last'.got.f[c] = supplied[<<NewType, u>>].data[c]
       /\ (last'.op = "delete" /\ HasRow(tables, m, u)) =>
             (last'.ret /\ ~HasRow(tables', m, u))

C20_NewTypeStep ==
    (/\ last'.op \in EngineOps /\ last'.type = NewType
     /\ is_registered(registry[last'.inst], NewType)
     /\ CustomServiceConfig.model \in DOMAIN tables) => NewTypeSucceeds

C20_NewTypeWithTable == [][C20_NewTypeStep]_vars

\* as stated: registration alone is enough
C20_RegisteredStep ==
    (/\ last'.op \in EngineOps /\ last'.type = NewType
     /\ is_registered(registry[last'.inst], NewType)) => NewTypeSucceeds

C20_NewTypeRegistered == [][C20_RegisteredStep]_vars

\* a token of the new type has been deleted, and that of another user is
\* stored with both secrets as ciphertext
C20_Witness ==
    /\ last.op = "delete" /\ last.ret /\ last.type = NewType
    /\ is_registered(registry["s1"], NewType)
    /\ CustomServiceConfig.model \in DOMAIN tables
    /\ \E r \in tables[CustomServiceConfig.model] :
          /\ r.user_id # last.user
          /\ r.f["api_key"].kind = "fernet" /\ r.f["api_secret"].kind = "fernet"
          /\ r.f["endpoint"] = Str("https://y.example")

(***************************************************************************)
(* C21.  For every plaintext str without a surrogate code point, the empty *)
(* str and multi-byte text included, encrypt succeeds and decrypt of what  *)
(* it returned gives the plaintext back, on the same instance and on every *)
(* other instance built from the same key.                                 *)
(***************************************************************************)
\* the encrypt call l succeeded and every instance of its key decrypts its
\* result to its argument
RoundTrips(l) ==
    /\ l.err = NoError
    /\ \A e \in Encryptions :
          ciphers[e] = ciphers[l.inst] =>
             TokenEncryption_decrypt(ciphers[e], l.out) = [err |-> NoError, out |-> l.arg]

C21_RoundTripEncodable ==
    (/\ last.op = "encrypt"
     /\ \A i \in 1..Len(last.arg.cps) : ~IsSurrogate(last.arg.cps[i])) => RoundTrips(last)

\* as stated: for every plaintext str
C21_RoundTripEveryString == (last.op = "encrypt") => RoundTrips(last)

\* the second instance of a key has decrypted multi-byte text that the first
\* instance encrypted
C21_Witness ==
    /\ last.op = "decrypt" /\ last.inst = "e2" /\ last.err = NoError
    /\ last.out = Text(<<0, 233, 8364, 128272>>)
    /\ \E i \in 1..Len(issued) :
          /\ issued[i].inst = "e1" /\ issued[i].out = last.arg
          /\ issued[i].plaintext = last.out

(***************************************************************************)
(* C22.  decrypt(c) under key K succeeds only when c is, unmodified, what  *)
(* an encrypt call under the same key K returned: a token of another key,  *)
(* a token with one character changed and arbitrary text all fail.         *)
(***************************************************************************)
C22_OnlyOwnUnmodified ==
    (last.op = "decrypt" /\ last.err = NoError) =>
        \E i \in 1..Len(issued) :
           issued[i].out = last.arg /\ ciphers[issued[i].inst] = ciphers[last.inst]

(***************************************************************************)
(* C23.  Every failure of decrypt is a DecryptionError, and for a token of *)
(* another key, a token that was changed and text that is no token (all of *)
(* it text that UTF-8 can encode) the message is one and the same.         *)
(***************************************************************************)
C23_OneErrorForTokensAndText ==
    (last.op = "decrypt" /\ last.err # NoError) =>
        /\ last.err.kind = "DecryptionError"
        /\ (last.arg.kind = "text" =>
               \A i \in 1..Len(last.arg.cps) : ~IsSurrogate(last.arg.cps[i]))
           => last.err = DecryptionError(InvalidTokenMessage)

\* as stated: type and message are the same whatever made decrypt fail
C23_OneErrorAlways ==
    (last.op = "decrypt" /\ last.err # NoError) =>
        last.err = DecryptionError(InvalidTokenMessage)

\* a decrypt of a token sealed under another key has failed with the message
\* that text which is no token gets
C23_Witness ==
    /\ last.op = "decrypt" /\ last.arg.kind = "token"
    /\ last.arg.mac = "ok" /\ last.arg.k # ciphers[last.inst]
    /\ last.err = TokenEncryption_decrypt(ciphers[last.inst], Text(<<65>>)).err
    /\ last.err # NoError

(***************************************************************************)
(* C24.  Two encrypt calls on the same plaintext under the same key return *)
(* different ciphertexts, and every ciphertext differs from its plaintext  *)
(* (it is longer), that of the empty str included.                         *)
(***************************************************************************)
C24_FreshCiphertext ==
    /\ \A i, j \in 1..Len(issued) :
          (/\ i # j /\ issued[i].plaintext = issued[j].plaintext
           /\ issued[i].out.k = issued[j].out.k) => issued[i].out # issued[j].out
    /\ \A i \in 1..Len(issued) :
          /\ issued[i].out # issued[i].plaintext
          /\ TokenChars(issued[i].out.data) > Len(issued[i].plaintext.cps)

\* the empty str has been encrypted twice under one key
C24_Witness ==
    \E i, j \in 1..Len(issued) :
       /\ i # j /\ issued[i].plaintext = Text(<<>>) /\ issued[j].plaintext = Text(<<>>)
       /\ issued[i].out.k = issued[j].out.k /\ issued[i].out # issued[j].out

(***************************************************************************)
(* C25.  TokenEncryption(encryption_key) resolves one key: the argument    *)
(* when it is given (not None, not empty), else the environment value;     *)
(* with neither it raises EncryptionKeyMissingError, with a resolved key   *)
(* that is no Fernet key it raises EncryptionError, and only otherwise is  *)
(* there an instance, whose key is the resolved key.                       *)
(***************************************************************************)
C25_KeyResolutionStep ==
    (last'.op = "TokenEncryption" /\ last' # last) =>
        LET given == last'.encryption_key \notin {NoKey, ""}
            resolved == IF given THEN last'.encryption_key ELSE last'.env
        IN /\ resolved \in {NoKey, ""} =>
                 (last'.err.kind = "EncryptionKeyMissingError" /\ ciphers' = ciphers)
           /\ (resolved \notin {NoKey, ""} /\ ~FernetKeyValid(resolved)) =>
                 (last'.err.kind = "EncryptionError" /\ ciphers' = ciphers)
           /\ (resolved \notin {NoKey, ""} /\ FernetKeyValid(resolved)) =>
                 /\ last'.err = NoError
                 /\ ciphers' = [ciphers EXCEPT ![last'.inst] = resolved]
           /\ \A e \in Encryptions : ciphers'[e] # NoKey => FernetKeyValid(ciphers'[e])

C25_KeyResolution == [][C25_KeyResolutionStep]_vars

\* an instance was built with an argument while the environment held
\* another key
C25_Witness ==
    /\ last.op = "TokenEncryption" /\ last.err = NoError
    /\ last.encryption_key = "K1" /\ last.env = "K2"
    /\ ciphers[last.inst] = "K1"

(***************************************************************************)
(* C26.  TokenStorage(...) with no key, neither as argument nor in the     *)
(* environment, raises EncryptionKeyMissingError: no instance comes to     *)
(* exist, no table is created, and every upsert_token, get_token and       *)
(* delete_token runs on an instance that holds a valid key.                *)
(***************************************************************************)
C26_FailFastStep ==
    /\ (/\ last'.op = "TokenStorage" /\ last' # last
        /\ last'.encryption_key \in {NoKey, ""} /\ last'.env \in {NoKey, ""}) =>
           /\ last'.err.kind = "EncryptionKeyMissingError"
           /\ tables' = tables /\ ciphers' = ciphers /\ registry' = registry
    /\ (last'.op \in EngineOps /\ last' # last) => FernetKeyValid(ciphers[last'.inst])

C26_FailFast == [][C26_FailFastStep]_vars

\* a construction without key has failed on a database without tables,
\* which still has none
C26_Witness ==
    /\ last.op = "TokenStorage" /\ last.err.kind = "EncryptionKeyMissingError"
    /\ DOMAIN tables = {}
    /\ \A st \in Storages : ciphers[st] = NoKey

(***************************************************************************)
(* C27.  For the type registered with a codec (gdrive), after upsert_token *)
(* with a domain object returned True the row holds the flat mapping the   *)
(* serializer made of the object, each encrypted field that is non-empty   *)
(* as a ciphertext of its value and every other field verbatim, and        *)
(* get_token returns the deserializer's object built from the decrypted    *)
(* mapping, which carries every value of the object stored; for a type     *)
(* without codec (jira) get_token returns the flat mapping itself.         *)
(***************************************************************************)
C27_CodecRoundTrip ==
    \A u \in Users :
       /\ LET h == supplied[<<"gdrive", u>>]
              config == TokenRegistry_get(registry["s1"], "gdrive").config
              out == get_token(registry["s1"], tables, StorageKey("s1"), "gdrive", u)
          IN (h.has /\ "credentials" \in DOMAIN h.data) =>
                LET flat == CallSerializer(config.serializer, h.data["credentials"]).v
                IN /\ HasRow(tables, config.model, u)
                   /\ \A c \in DOMAIN flat :
                         LET raw == RowOf(tables, config.model, u).f[c]
                         IN IF c \in config.encrypted_fields /\ Truthy(flat[c])
                            THEN /\ raw.kind = "fernet"
                                 /\ decrypt(StorageKey("s1"), raw).ok
                                 /\ decrypt(StorageKey("s1"), raw).v = flat[c]
                            ELSE raw = flat[c]
                   /\ out.exc = NoExc
                   /\ out.got.kind = "object"
                   /\ out.got = CallDeserializer(config.deserializer,
                                    token_data(config, StorageKey("s1"),
                                               RowOf(tables, config.model, u))).v
                   /\ out.got.of.kind = "dict"
                   /\ \A c \in DOMAIN flat : out.got.of.f[c] = flat[c]
       /\ supplied[<<"jira", u>>].has =>
             get_token(registry["s1"], tables, StorageKey("s1"), "jira", u).got.kind = "dict"

\* a get_token of gdrive has returned an object carrying the secret and the
\* plain values of the Credentials object upserted before
C27_Witness ==
    /\ last.op = "get" /\ last.type = "gdrive" /\ last.got.kind = "object"
    /\ supplied[<<"gdrive", last.user>>].has
    /\ "credentials" \in DOMAIN supplied[<<"gdrive", last.user>>].data
    /\ supplied[<<"gdrive", last.user>>].data["credentials"].flat["refresh_token"] = Str("tok2")
    /\ last.got.of.f["refresh_token"] = Str("tok2")
    /\ last.got.of.f["client_id"] = Str("bob")
    /\ RowOf(tables, "gdrive_tokens", last.user).f["refresh_token"].kind = "fernet"

(***************************************************************************)
(* C28.  In every reachable state every configuration held by a registry   *)
(* names as encrypted only columns of its model, and has a serializer and  *)
(* a deserializer or neither.                                              *)
(***************************************************************************)
C28_ConfigInvariants ==
    \A st \in Storages : \A i \in 1..Len(registry[st]) :
        LET config == registry[st][i].config
        IN /\ config.encrypted_fields \subseteq ModelFields(config.model)
           /\ (config.serializer = NoHook) <=> (config.deserializer = NoHook)

(***************************************************************************)
(* C29.  After upsert_token returned True, an encrypted field that was     *)
(* supplied as None or as the empty string is in the row as that very      *)
(* value, an encrypted field supplied non-empty is in the row as a         *)
(* ciphertext, and get_token returns the record, not None, with the empty  *)
(* value where it was supplied.                                            *)
(***************************************************************************)
C29_SuppliedFlat(h) ==
    IF "credentials" \in DOMAIN h.data THEN h.data["credentials"].flat ELSE h.data

C29_EmptySecretVerbatim ==
    \A t \in {"jira", "gdrive"}, u \in Users :
        LET h == supplied[<<t, u>>]
            config == TokenRegistry_get(registry["s1"], t).config
            out == get_token(registry["s1"], tables, StorageKey("s1"), t, u)
        IN h.has =>
              \A c \in config.encrypted_fields \cap DOMAIN C29_SuppliedFlat(h) :
                 LET v == C29_SuppliedFlat(h)[c]
                     raw == RowOf(tables, config.model, u).f[c]
                 IN IF Truthy(v)
                    THEN raw.kind = "fernet"
                    ELSE /\ raw = v
                         /\ out.exc = NoExc
                         /\ out.got # NoneResult
                         /\ v = IF out.got.kind = "object" THEN out.got.of.f[c]
                                                           ELSE out.got.f[c]

\* a get_token has returned Credentials whose refresh_token is None, from a
\* row that holds None beside the ciphertext of the access token
C29_Witness ==
    /\ last.op = "get" /\ last.type = "gdrive" /\ last.got.kind = "object"
    /\ supplied[<<"gdrive", last.user>>].has
    /\ C29_SuppliedFlat(supplied[<<"gdrive", last.user>>])["refresh_token"] = Null
    /\ RowOf(tables, "gdrive_tokens", last.user).f["refresh_token"] = Null
    /\ RowOf(tables, "gdrive_tokens", last.user).f["token"].kind = "fernet"
    /\ last.got.of.f["refresh_token"] = Null
    /\ last.got.of.f["token"] = Str("abc123")

(***************************************************************************)
(* C30.  After every step, get_favorite_color(user) is, for every user,    *)
(* the color of the last upsert_favorite_color call for that user that no  *)
(* delete_favorite_color call for that user followed, and None when there  *)
(* is no such call; a get_favorite_color call returns just that; a         *)
(* favorite color call for one user leaves the color of every other user   *)
(* and every credential table as they were, and a credential call leaves   *)
(* the favorite colors as they were.                                       *)
(***************************************************************************)
C30_ColorOps == {"upsert_favorite_color", "get_favorite_color", "delete_favorite_color"}

C30_LastWrite(h, u) ==
    IF h[<<"favorite_color", u>>].has THEN h[<<"favorite_color", u>>].data["color"]
    ELSE NoneResult

C30_ColorStep ==
    /\ \A u \in Users : get_favorite_color(tables', u) = C30_LastWrite(supplied', u)
    /\ last' # last =>
         /\ last'.op = "get_favorite_color" =>
               /\ last'.got = C30_LastWrite(supplied, last'.user)
               /\ tables' = tables
         /\ last'.op \in C30_ColorOps =>
               /\ \A u \in Users \ {last'.user} :
                     get_favorite_color(tables', u) = get_favorite_color(tables, u)
               /\ \A m \in DOMAIN tables \ {"favorite_colors"} : tables'[m] = tables[m]
         /\ last'.op \in {"upsert", "get", "delete"} =>
               tables'["favorite_colors"] = tables["favorite_colors"]

C30_LastWriteWins == [][C30_ColorStep]_vars

\* a user's color was replaced at a later time and read back while another
\* user's color and a credential row stayed
C30_Witness ==
    /\ last.op = "get_favorite_color" /\ last.user = "u1" /\ last.got = Str("blue")
    /\ get_favorite_color(tables, "u2") = Str("red")
    /\ \E r \in tables["favorite_colors"] : r.user_id = "u1" /\ r.created_at < r.updated_at
    /\ HasRow(tables, "jira_tokens", "u1")

(***************************************************************************)
(* C31.  When two upsert_token calls for one key have both found no row    *)
(* and both are done, exactly one of them returned True and the other      *)
(* returned False, neither raised, and the key has exactly one row, whose  *)
(* columns hold what the call that returned True wrote.                    *)
(***************************************************************************)
C31_BothInsert ==
    \A p \in Procs : calls[p].pc = "done" /\ calls[p].existing = {}

C31_InsertRace ==
    C31_BothInsert =>
        LET rows == {r \in tables["jira_tokens"] : r.user_id = RaceUser}
        IN /\ Cardinality({p \in Procs : calls[p].ret}) = 1
           /\ last.op = "upsert" => last.exc = NoExc
           /\ Cardinality(rows) = 1
           /\ \A p \in Procs : \A r \in rows :
                 calls[p].ret => \A c \in DOMAIN calls[p].sd : r.f[c] = calls[p].sd[c]

\* both calls took the insert path; the second to commit was refused and
\* the row is the one of the first
C31_Witness ==
    /\ C31_BothInsert
    /\ last.op = "upsert" /\ ~last.ret
    /\ calls["p1"].ret /\ ~calls["p2"].ret
    /\ calls["p1"].data # calls["p2"].data
    /\ \E r \in tables["jira_tokens"] :
          r.user_id = RaceUser /\ r.f["server_url"] = calls["p1"].sd["server_url"]

(***************************************************************************)
(* C32.  An upsert_token whose mapping holds a name that is no column of   *)
(* the model: on a key with a row it returns True and leaves the tables as *)
(* the same call without that name leaves them; on a key without a row it  *)
(* returns False and leaves the tables as they are, provided the name is   *)
(* no attribute of the model class either.                                 *)
(***************************************************************************)
C32_Upsert(u, data) ==
    upsert_token(registry["s1"], tables, StorageKey("s1"), [c \in {"token"} |-> 1],
                 "jira", u, data, now)

C32_Columns(data) == DOMAIN data \cap (ModelFields("jira_tokens") \cup TimeColumns)

C32_UnknownName(u, data, unknown) ==
    unknown # {} =>
        IF HasRow(tables, "jira_tokens", u)
        THEN /\ C32_Upsert(u, data).ret
             /\ C32_Upsert(u, data).exc = NoExc
             /\ C32_Upsert(u, data).tables =
                   C32_Upsert(u, [c \in C32_Columns(data) |-> data[c]]).tables
        ELSE /\ ~C32_Upsert(u, data).ret
             /\ C32_Upsert(u, data).exc = NoExc
             /\ C32_Upsert(u, data).tables = tables

C32_UnknownAttribute ==
    \A u \in Users, data \in UnknownData :
        C32_UnknownName(u, data, DOMAIN data \ (C32_Columns(data) \cup ModelClassAttributes))

\* the statement as made, for every name that is no column
C32_UnknownColumn ==
    \A u \in Users, data \in UnknownData :
        C32_UnknownName(u, data, DOMAIN data \ C32_Columns(data))

\* an upsert_token with an unknown name has changed the username of a row
\* that an earlier call inserted, and the same call is refused for the other
\* user, who has no row
C32_Witness ==
    /\ last.op = "upsert" /\ last.ret
    /\ supplied[<<"jira", last.user>>].has
    /\ "bogus" \in DOMAIN supplied[<<"jira", last.user>>].data
    /\ "token" \notin DOMAIN supplied[<<"jira", last.user>>].data
    /\ RowOf(tables, "jira_tokens", last.user).f["username"] = Str("bob")
    /\ RowOf(tables, "jira_tokens", last.user).f["token"].kind = "fernet"
    /\ \E u \in Users :
          /\ ~HasRow(tables, "jira_tokens", u)
          /\ ~C32_Upsert(u, supplied[<<"jira", last.user>>].data).ret

(***************************************************************************)
(* C33.  A register step leaves every table as it is.  After every step,   *)
(* for every row of jira: while a field listed as encrypted holds a        *)
(* non-empty plaintext, get_token returns None for the row; and whenever   *)
(* get_token returns the record, a field that is not listed as encrypted   *)
(* has the raw stored value, the ciphertext if a ciphertext was stored.    *)
(***************************************************************************)
\* the encrypted fields of the row whose stored value is a str of at least
\* least characters, not a ciphertext
C33_PlainStored(config, row, least) ==
    {c \in config.encrypted_fields \cap ModelFields(config.model) :
        row.f[c].kind = "str" /\ Len(row.f[c].s) >= least}

C33_Reads(reg, tabs, least) ==
    \A u \in Users :
        HasRow(tabs, "jira_tokens", u) =>
            LET config == TokenRegistry_get(reg, "jira").config
                row == RowOf(tabs, "jira_tokens", u)
                out == get_token(reg, tabs, StorageKey("s1"), "jira", u)
            IN /\ out.exc = NoExc
               /\ C33_PlainStored(config, row, least) # {} => out.got = NoneResult
               /\ out.got # NoneResult =>
                     \A c \in ModelFields("jira_tokens") \ config.encrypted_fields :
                         out.got.f[c] = row.f[c]

C33_RelistStep(least) ==
    /\ (last' # last /\ last'.op = "register") => tables' = tables
    /\ C33_Reads(registry'["s1"], tables', least)

C33_RelistNonEmpty == [][C33_RelistStep(1)]_vars

\* the statement as made, for every field stored as plaintext
C33_RelistAnyPlaintext == [][C33_RelistStep(0)]_vars

\* after jira was registered without encrypted fields a get_token has
\* returned the ciphertext stored before, and the other user's row, written
\* since, holds a plaintext token
C33_Witness ==
    /\ last.op = "get" /\ last.got.kind = "dict"
    /\ TokenRegistry_get(registry["s1"], "jira").config.encrypted_fields = {}
    /\ last.got.f["token"].kind = "fernet"
    /\ \E u \in Users \ {last.user} :
          /\ HasRow(tables, "jira_tokens", u)
          /\ RowOf(tables, "jira_tokens", u).f["token"] = Str("abc123")

(***************************************************************************)
(* C34.  For the flat types jira and github: a get_token that returns a    *)
(* record returns a dict whose keys are exactly the columns of the table,  *)
(* id, user_id, the declared fields, created_at and updated_at; and after  *)
(* an upsert_token that inserted the row, get_token returns for every      *)
(* declared field the call did not supply the default of the column, None  *)
(* where it has none.                                                      *)
(***************************************************************************)
C34_FullKeySetStep ==
    LET t == last'.type
        m == ModelOf("s1", t)
        out == get_token(registry'["s1"], tables', StorageKey("s1"), t, last'.user)
    IN (last' # last /\ t \in {"jira", "github"}) =>
          /\ (last'.op = "get" /\ last'.got # NoneResult) =>
                /\ last'.got.kind = "dict"
                /\ dict_keys(last'.got) = TableColumns(m)
                /\ last'.got = out.got
          /\ (last'.op = "upsert" /\ last'.ret /\ ~HasRow(tables, m, last'.user)) =>
                /\ out.got.kind = "dict"
                /\ dict_keys(out.got) = TableColumns(m)
                /\ \A c \in ModelFields(m) \ DOMAIN supplied'[<<t, last'.user>>].data :
                      out.got.f[c] = ModelDefault(m, c)

C34_FullKeySet == [][C34_FullKeySetStep]_vars

\* a get_token of a github row written with the token only has returned
\* the default server_url and None as username
C34_Witness ==
    /\ last.op = "get" /\ last.type = "github" /\ last.got.kind = "dict"
    /\ DOMAIN supplied[<<"github", last.user>>].data = {"token"}
    /\ last.got.f["token"] = Str("abc123")
    /\ last.got.f["server_url"] = Str("https://api.github.com")
    /\ last.got.f["username"] = Null
    /\ dict_keys(last.got) = {"id", "user_id", "token", "server_url", "username",
                              "created_at", "updated_at"}

(***************************************************************************)
(* C35.  When an upsert_token that returned True is followed at once by    *)
(* the same call (same storage, type, user and fields) and that returns    *)
(* True too, the key has exactly one row after the second call as after    *)
(* the first, and get_token returns after the second call the record it    *)
(* returned after the first, updated_at aside.                             *)
(***************************************************************************)
C35_Fields(td) ==
    [id |-> td.id, user_id |-> td.user_id, f |-> td.f, created_at |-> td.created_at]

C35_View(out) ==
    IF out.got.kind = "dict" THEN C35_Fields(out.got)
    ELSE IF out.got.kind = "object" THEN C35_Fields(out.got.of)
    ELSE out.got

C35_SameCallTwice ==
    /\ last.op = "upsert" /\ last.ret
    /\ last'.op = "upsert" /\ last'.ret
    /\ last'.inst = last.inst /\ last'.type = last.type /\ last'.user = last.user
    /\ supplied[<<last.type, last.user>>].has
    /\ supplied'[<<last.type, last.user>>] = supplied[<<last.type, last.user>>]

C35_IdempotentStep ==
    C35_SameCallTwice =>
        LET st == last'.inst
            m == ModelOf(st, last'.type)
            u == last'.user
        IN /\ Cardinality({r \in tables[m] : r.user_id = u}) = 1
           /\ Cardinality({r \in tables'[m] : r.user_id = u}) = 1
           /\ Cardinality(tables'[m]) = Cardinality(tables[m])
           /\ C35_View(get_token(registry[st], tables', StorageKey(st), last'.type, u))
                 = C35_View(get_token(registry[st], tables, StorageKey(st), last.type, u))

C35_Idempotent == [][C35_IdempotentStep]_vars

\* the call made again has written a later updated_at and another
\* ciphertext into the row, and get_token returns the fields supplied
C35_Witness ==
    /\ last.op = "upsert" /\ last.ret /\ "again" \in DOMAIN last
    /\ last.type = "jira"
    /\ LET row == RowOf(tables, "jira_tokens", last.user)
           out == get_token(registry["s1"], tables, StorageKey("s1"), "jira", last.user)
       IN /\ row.created_at < row.updated_at
          /\ row.updated_at = now
          /\ row.f["token"].iv = NumNonces
          /\ out.got.kind = "dict"
          /\ \A c \in DOMAIN supplied[<<"jira", last.user>>].data :
                out.got.f[c] = supplied[<<"jira", last.user>>].data[c]

(***************************************************************************)
(* C36.  On a row that the calling instance cannot decrypt, so that its    *)
(* get_token returns None: delete_token returns True and removes the row,  *)
(* and upsert_token returns True and get_token of that instance returns    *)
(* the record afterwards.                                                  *)
(***************************************************************************)
C36_RewriteStep ==
    LET st == last'.inst
        t == last'.type
        u == last'.user
        config == TokenRegistry_get(registry[st], t).config
        m == config.model
        unreadable == /\ HasRow(tables, m, u)
                      /\ Undecryptable(st, config, RowOf(tables, m, u))
                      /\ get_token(registry[st], tables, StorageKey(st), t, u).got
                            = NoneResult
    IN (t = "jira" /\ unreadable) =>
          /\ last'.op = "delete" => (last'.ret /\ ~HasRow(tables', m, u))
          /\ last'.op = "upsert" =>
                /\ last'.ret
                /\ get_token(registry'[st], tables', StorageKey(st), t, u).got
                      # NoneResult

C36_WritesNeverDecrypt == [][C36_RewriteStep]_vars

====
